---- MODULE Spec2Model ----
(***************************************************************************)
(* KFS metaserver: the request dispatcher (meta/request.cc), the Allocate  *)
(* handler state machine, and the operation log's pending queue.           *)
(*                                                                         *)
(* The dispatcher is single threaded: every handler runs to completion, so *)
(* each handler is one operator from a world record (all the state the     *)
(* dispatcher can touch) to a world record, and one action installs the    *)
(* result.  The metadata tree (kfstree), the request queue (queue.h), the  *)
(* logger (logger.cc) and the layout manager (LayoutManager.cc) are        *)
(* collaborators whose code is separate from request.cc; they are          *)
(* modelled by their documented contract and kept apart from the handlers. *)
(***************************************************************************)
EXTENDS Integers, Sequences, FiniteSets, TLC

VARIABLES
    reqs,            \* every MetaRequest object created so far, by id (its index)
    requestList,     \* MetaQueue<MetaRequest> requestList: ids, head first
    gCounters,       \* OpCounterMap gCounters: registered op -> count
    chunkVersionInc, \* global chunk version increment
    chunkIDseed,     \* chunkID allocator seed
    fileIDseed,      \* fileID allocator seed
    dentries,        \* metatree: name in the root directory -> fid (0: absent)
    chunks,          \* metatree: set of Chunkinfo [fid, offset, chunkId, chunkVersion]
    chunkToServer,   \* layout manager: chunkId -> set of servers hosting it
    rpcs,            \* chunkserver RPCs whose reply a suspended request awaits
    sent,            \* history: every chunkserver RPC ever sent
    pending,         \* oplog: every request handed to add_pending, in order
    nwritten,        \* oplog: how many entries of pending the log thread has consumed
    logfile,         \* oplog: records written to the log file, in order
    committed,       \* oplog: number of records of logfile that are flushed to disk
    released,        \* ids of the requests whose response has been released
    nclient,         \* number of client requests submitted so far
    dispatchLog,     \* history: id of the request of every dispatch, in order
    everSuspended,   \* history: ids whose handler ever returned with suspended = true
    waitAhead,       \* history: resumed, not yet re-dispatched id -> ids queued at resume
    cp,              \* Checkpoint KFS::cp and the threads that use it
    parsed,          \* the last call of ParseCommand: its message and what it returned
    net,             \* NetManager: its connection list and the position of MainLoop
    sock             \* TcpSocket: a call of DoSynchDiscard and its position

vars == <<reqs, requestList, gCounters, chunkVersionInc, chunkIDseed, fileIDseed,
          dentries, chunks, chunkToServer, rpcs, sent, pending, nwritten, logfile,
          committed, released, nclient, dispatchLog, everSuspended, waitAhead,
          cp, parsed, net, sock>>

----------------------------------------------------------------------------
(* Bounds and finite input sets *)

MaxClientReq == 3
MaxRestoredReq == 2
MaxTruncateReq == 2
MaxExpiry == 2
MaxMutations == 2
MaxNodes == 2
MaxZombies == 1
MaxNumReplicas == 4
MaxAnyReq == 2
MaxReadReq == 2
MaxConns == 2
MaxBytes == 3
MaxTimeout == 2

Names == {"a"}
Servers == {"s1", "s2"}
Offsets == {0}
LeaseOutcomes == {"valid", "new", "fail"}
\* the placements the layout manager may choose: none (no space), one replica,
\* or every server
Placements == {{}, {"s1"}, Servers}

(* Program constants *)
ROOTFID == 2
ENOENT == 2
EIO == 5
EEXIST == 17
ENOTDIR == 20
ENOSPC == 28
ENOSYS == 38
ETIMEDOUT == 110
EHOSTUNREACH == 113
EDATAUNAVAIL == 1003
ESERVERBUSY == 1004
EALLOCFAILED == 1005
InitialChunkVersionInc == 1

META_LOOKUP == "META_LOOKUP"
META_CREATE == "META_CREATE"
META_REMOVE == "META_REMOVE"
META_ALLOCATE == "META_ALLOCATE"
META_CHANGE_CHUNKVERSIONINC == "META_CHANGE_CHUNKVERSIONINC"
META_TRUNCATE == "META_TRUNCATE"
META_LOOKUP_PATH == "META_LOOKUP_PATH"
META_MKDIR == "META_MKDIR"
META_RMDIR == "META_RMDIR"
META_READDIR == "META_READDIR"
META_GETALLOC == "META_GETALLOC"
META_GETLAYOUT == "META_GETLAYOUT"
META_RENAME == "META_RENAME"
META_HELLO == "META_HELLO"
META_BYE == "META_BYE"
META_CHUNK_ALLOCATE == "META_CHUNK_ALLOCATE"
META_CHUNK_DELETE == "META_CHUNK_DELETE"
META_CHUNK_TRUNCATE == "META_CHUNK_TRUNCATE"
META_CHUNK_HEARTBEAT == "META_CHUNK_HEARTBEAT"
META_CHUNK_STALENOTIFY == "META_CHUNK_STALENOTIFY"
META_CHUNK_VERSCHANGE == "META_CHUNK_VERSCHANGE"
META_CHUNK_REPLICATE == "META_CHUNK_REPLICATE"
META_PING == "META_PING"
META_STATS == "META_STATS"
META_LEASE_ACQUIRE == "META_LEASE_ACQUIRE"
META_LEASE_RENEW == "META_LEASE_RENEW"
META_LEASE_CLEANUP == "META_LEASE_CLEANUP"
META_CHUNK_REPLICATION_CHECK == "META_CHUNK_REPLICATION_CHECK"
META_CHECKPOINT == "META_CHECKPOINT"

ClientOps == {META_LOOKUP, META_CREATE, META_REMOVE, META_ALLOCATE}

----------------------------------------------------------------------------
(* Helpers *)

Last(s) == s[Len(s)]
Range(s) == {s[i] : i \in DOMAIN s}
Pos(s, x) == CHOOSE i \in DOMAIN s : s[i] = x
MaxOf(a, b) == IF a >= b THEN a ELSE b

World ==
    [reqs |-> reqs, requestList |-> requestList, gCounters |-> gCounters,
     chunkVersionInc |-> chunkVersionInc, chunkIDseed |-> chunkIDseed,
     fileIDseed |-> fileIDseed, dentries |-> dentries, chunks |-> chunks,
     chunkToServer |-> chunkToServer, rpcs |-> rpcs, sent |-> sent,
     pending |-> pending, nwritten |-> nwritten, logfile |-> logfile,
     committed |-> committed, released |-> released, nclient |-> nclient,
     dispatchLog |-> dispatchLog, everSuspended |-> everSuspended,
     waitAhead |-> waitAhead]

Install(w) ==
    /\ reqs' = w.reqs
    /\ requestList' = w.requestList
    /\ gCounters' = w.gCounters
    /\ chunkVersionInc' = w.chunkVersionInc
    /\ chunkIDseed' = w.chunkIDseed
    /\ fileIDseed' = w.fileIDseed
    /\ dentries' = w.dentries
    /\ chunks' = w.chunks
    /\ chunkToServer' = w.chunkToServer
    /\ rpcs' = w.rpcs
    /\ sent' = w.sent
    /\ pending' = w.pending
    /\ nwritten' = w.nwritten
    /\ logfile' = w.logfile
    /\ committed' = w.committed
    /\ released' = w.released
    /\ nclient' = w.nclient
    /\ dispatchLog' = w.dispatchLog
    /\ everSuspended' = w.everSuspended
    /\ waitAhead' = w.waitAhead
    /\ cp' = cp
    /\ parsed' = parsed
    /\ net' = net
    /\ sock' = sock

(* A MetaRequest object: the fields of all request kinds the model uses. *)
NewReq(op) ==
    [op |-> op, status |-> 0, suspended |-> FALSE, layoutDone |-> FALSE,
     name |-> "", fid |-> 0, offset |-> 0, chunkId |-> 0, chunkVersion |-> 0,
     servers |-> {}, cvi |-> 0, req |-> 0, lease |-> "",
     dir |-> ROOTFID, numReplicas |-> 1, newname |-> "",
     v |-> <<>>, locations |-> <<>>, asked |-> 0, resp |-> <<>>]

----------------------------------------------------------------------------
(* Metadata tree (kfstree): the operations the handlers call. *)

Files(w) == {w.dentries[n] : n \in Names} \ {0}

file_exists(w, fid) == fid = ROOTFID \/ fid \in Files(w)

\* Tree::lookup in the root directory
lookup(w, name) == IF w.dentries[name] = 0 THEN -ENOENT ELSE 0

\* Tree::create: a new fid for a name that is not in the directory
create(w, name) ==
    IF w.dentries[name] # 0
    THEN [w |-> w, status |-> -EEXIST, fid |-> 0]
    ELSE LET f == w.fileIDseed + 1
         IN [w |-> [w EXCEPT !.fileIDseed = f, !.dentries[name] = f],
             status |-> 0, fid |-> f]

\* Tree::remove: the dentry, the Fattr and the file's Chunkinfos leave the tree
remove(w, name) ==
    IF w.dentries[name] = 0
    THEN [w |-> w, status |-> -ENOENT]
    ELSE LET f == w.dentries[name]
         IN [w |-> [w EXCEPT !.dentries[name] = 0,
                             !.chunks = {c \in @ : c.fid # f}],
             status |-> 0]

\* Tree::allocateChunkId: -EEXIST with the existing tuple when (fid, offset) has a
\* Chunkinfo, else a fresh chunk id with version chunkVersionInc; the tree itself
\* is linked to the chunk only by assignChunkId (step 7 of handle_allocate).
allocateChunkId(w, fid, offset, curVersion) ==
    IF fid \notin Files(w)
    THEN [status |-> -ENOENT, chunkId |-> 0, chunkVersion |-> curVersion,
          seed |-> w.chunkIDseed]
    ELSE IF \E c \in w.chunks : c.fid = fid /\ c.offset = offset
    THEN LET c == CHOOSE c \in w.chunks : c.fid = fid /\ c.offset = offset
         IN [status |-> -EEXIST, chunkId |-> c.chunkId,
             chunkVersion |-> c.chunkVersion, seed |-> w.chunkIDseed]
    ELSE [status |-> 0, chunkId |-> w.chunkIDseed + 1,
          chunkVersion |-> w.chunkVersionInc, seed |-> w.chunkIDseed + 1]

\* Tree::assignChunkId: link (fid, offset) to the chunk, or update its version
assignChunkId(w, fid, offset, chunkId, version) ==
    IF fid \notin Files(w)
    THEN [w |-> w, status |-> -ENOENT]
    ELSE IF \E c \in w.chunks : c.fid = fid /\ c.offset = offset
    THEN LET c == CHOOSE c \in w.chunks : c.fid = fid /\ c.offset = offset
         IN IF c.chunkId # chunkId
            THEN [w |-> w, status |-> -EEXIST]
            ELSE [w |-> [w EXCEPT !.chunks = (@ \ {c}) \cup
                                     {[c EXCEPT !.chunkVersion = version]}],
                  status |-> 0]
    ELSE [w |-> [w EXCEPT !.chunks = @ \cup
                     {[fid |-> fid, offset |-> offset, chunkId |-> chunkId,
                       chunkVersion |-> version]}],
          status |-> 0]

\* Tree::getChunkVersion: the tree's version of the chunk, 0 when the file has
\* no such chunk
getChunkVersion(w, fid, chunkId) ==
    IF \E c \in w.chunks : c.fid = fid /\ c.chunkId = chunkId
    THEN (CHOOSE c \in w.chunks : c.fid = fid /\ c.chunkId = chunkId).chunkVersion
    ELSE 0

\* Tree::truncate: a positive status with the offset of the chunk to allocate
\* when the file has to grow to a chunk it does not have; else the chunks past
\* the offset leave the tree
truncate(w, fid, offset) ==
    IF fid \notin Files(w)
    THEN [w |-> w, status |-> -ENOENT, allocOffset |-> 0]
    ELSE IF ~\E c \in w.chunks : c.fid = fid /\ c.offset = offset
    THEN [w |-> w, status |-> 1, allocOffset |-> offset]
    ELSE [w |-> [w EXCEPT !.chunks = {c \in @ : c.fid # fid \/ c.offset <= offset}],
          status |-> 0, allocOffset |-> 0]

RECURSIVE SetToSeq(_)
\* the elements of a finite set, in the order an iteration meets them
SetToSeq(S) ==
    IF S = {} THEN <<>>
    ELSE LET x == CHOOSE x \in S : TRUE IN <<x>> \o SetToSeq(S \ {x})

\* Tree::readdir: the dentries of the directory; the root directory holds its
\* own dentry, named "/", besides the names created in it
readdir(w, dir) ==
    [status |-> 0,
     v |-> <<"/">> \o SetToSeq({n \in Names : w.dentries[n] # 0})]

\* Tree::getalloc(fid, offset, &chunkInfo): the Chunkinfo at the offset
getalloc(w, fid, offset) ==
    IF \E c \in w.chunks : c.fid = fid /\ c.offset = offset
    THEN [status |-> 0,
          chunkInfo |-> CHOOSE c \in w.chunks : c.fid = fid /\ c.offset = offset]
    ELSE [status |-> -ENOENT,
          chunkInfo |-> [fid |-> fid, offset |-> offset, chunkId |-> 0,
                         chunkVersion |-> 0]]

\* Tree::getalloc(fid, chunkInfo): every Chunkinfo of the file
getalloc_all(w, fid) ==
    [status |-> 0, chunkInfo |-> SetToSeq({c \in w.chunks : c.fid = fid})]

----------------------------------------------------------------------------
(* Request queue (MetaQueue) *)

\* MetaQueue::enqueue: at the tail
enqueue(w, r) == [w EXCEPT !.requestList = Append(@, r)]

\* at the head
enqueue_front(w, r) == [w EXCEPT !.requestList = <<r>> \o @]

\* a faulty variant: a new request is put at the head
submit_request_front(w, r) == enqueue_front(w, r)

\* KFS::submit_request
submit_request(w, r) == enqueue(w, r)

\* A suspended request whose awaited event arrived goes back to the head of the
\* queue; waitAhead remembers who was queued at that moment.
resume_request(w, r) ==
    [w EXCEPT !.requestList = <<r>> \o @,
              !.waitAhead = [x \in DOMAIN @ \cup {r} |->
                                IF x = r THEN Range(w.requestList) ELSE @[x]]]

----------------------------------------------------------------------------
(* Operation log: the dispatcher's side *)

\* Logger::add_pending
add_pending(w, r) == [w EXCEPT !.pending = Append(@, r)]

----------------------------------------------------------------------------
(* Layout manager: the calls handle_allocate makes.  The outcome of placement *)
(* and of the lease check depends on chunkserver and lease state that the     *)
(* dispatcher does not own; it is an input (env) of the dispatch.             *)

RpcMsg(kind, s, r, chunkId, version) ==
    [kind |-> kind, server |-> s, req |-> r, chunkId |-> chunkId,
     chunkVersion |-> version]

\* a faulty variant: the placement is not entered into the mapping
AllocateChunk_unmapped(w, r, place) ==
    IF place = {}
    THEN [w |-> w, status |-> -ENOSPC]
    ELSE LET req == w.reqs[r]
             master == CHOOSE s \in place : TRUE
             m == RpcMsg("ALLOCATE", master, r, req.chunkId, req.chunkVersion)
         IN [w |-> [w EXCEPT !.reqs[r].servers = place,
                             !.rpcs = @ \cup {m},
                             !.sent = @ \cup {m}],
             status |-> 0]

\* LayoutManager::AllocateChunk: nonzero when no server can be picked; else the
\* replicas are recorded on the request, ALLOCATE goes to the master (the
\* first server picked) and the placement is entered into the chunk-to-server
\* mapping: it is this entry that handle_allocate removes again when the first
\* allocation of the chunk fails
AllocateChunk(w, r, place) ==
    IF place = {}
    THEN [w |-> w, status |-> -ENOSPC]
    ELSE LET req == w.reqs[r]
             master == CHOOSE s \in place : TRUE
             m == RpcMsg("ALLOCATE", master, r, req.chunkId, req.chunkVersion)
         IN [w |-> [w EXCEPT !.reqs[r].servers = place,
                             !.rpcs = @ \cup {m},
                             !.sent = @ \cup {m},
                             !.chunkToServer =
                                 [c \in DOMAIN @ \cup {req.chunkId} |->
                                     IF c = req.chunkId THEN place ELSE @[c]]],
             status |-> 0]

\* LayoutManager::GetChunkWriteLease: a live write lease is returned as is; else
\* the chunk version is bumped by chunkVersionInc and CHUNK_VERS_CHANGE goes to
\* every replica.  The field lease of the request remembers the answer.
GetChunkWriteLease(w, r, lease) ==
    LET req == w.reqs[r]
        replicas == IF req.chunkId \in DOMAIN w.chunkToServer
                    THEN w.chunkToServer[req.chunkId] ELSE {}
    IN IF lease = "fail" \/ replicas = {}
       THEN [w |-> [w EXCEPT !.reqs[r].lease = "fail"],
             status |-> -EDATAUNAVAIL, isNewLease |-> FALSE]
       ELSE IF lease = "valid"
       THEN [w |-> [w EXCEPT !.reqs[r].servers = replicas,
                             !.reqs[r].lease = "valid"],
             status |-> 0, isNewLease |-> FALSE]
       ELSE LET v == req.chunkVersion + w.chunkVersionInc
                ms == {RpcMsg("CHUNK_VERS_CHANGE", s, r, req.chunkId, v) :
                          s \in replicas}
            IN [w |-> [w EXCEPT !.reqs[r].servers = replicas,
                                !.reqs[r].lease = "new",
                                !.reqs[r].chunkVersion = v,
                                !.rpcs = @ \cup ms,
                                !.sent = @ \cup ms],
                status |-> 0, isNewLease |-> TRUE]

\* ChunkServer::NotifyChunkVersChange, applied by ChunkVersionChanger to every
\* server of the request: a notification nobody waits for
NotifyChunkVersChange(w, r, fid, chunkId, chunkVers) ==
    [w EXCEPT !.sent = @ \cup
        {RpcMsg("CHUNK_VERS_CHANGE", s, r, chunkId, chunkVers) :
            s \in w.reqs[r].servers}]

\* LayoutManager::RemoveChunkToServerMapping
RemoveChunkToServerMapping(w, chunkId) ==
    [w EXCEPT !.chunkToServer =
        [c \in DOMAIN @ \ {chunkId} |-> @[c]]]

\* LayoutManager::GetChunkToServerMapping: nonzero when no server is known to
\* host the chunk, else the servers of the chunk
GetChunkToServerMapping(w, chunkId) ==
    IF chunkId \notin DOMAIN w.chunkToServer \/ w.chunkToServer[chunkId] = {}
    THEN [status |-> -1, c |-> <<>>]
    ELSE [status |-> 0, c |-> SetToSeq(w.chunkToServer[chunkId])]

----------------------------------------------------------------------------
(* Handlers of request.cc *)

\* only the root is a directory: no handler of the model makes another one
is_dir(w, fid) == file_exists(w, fid) /\ fid = ROOTFID

\* a faulty variant: the request carries the increment as it was before the bump
ChangeIncarnationNumber_stale(w, r) ==
    LET id == Len(w.reqs) + 1
        ccvi == [NewReq(META_CHANGE_CHUNKVERSIONINC) EXCEPT
                    !.cvi = w.chunkVersionInc, !.req = r]
        w1 == [w EXCEPT !.chunkVersionInc = @ + 1, !.reqs = Append(@, ccvi)]
    IN submit_request(w1, id)

\* a faulty variant: the increment is stepped down instead of up
ChangeIncarnationNumber_decrement(w, r) ==
    LET inc == w.chunkVersionInc - 1
        id == Len(w.reqs) + 1
        ccvi == [NewReq(META_CHANGE_CHUNKVERSIONINC) EXCEPT
                    !.cvi = inc, !.req = r]
        w1 == [w EXCEPT !.chunkVersionInc = inc, !.reqs = Append(@, ccvi)]
    IN submit_request(w1, id)

\* KFS::ChangeIncarnationNumber
ChangeIncarnationNumber(w, r) ==
    LET inc == w.chunkVersionInc + 1
        id == Len(w.reqs) + 1
        ccvi == [NewReq(META_CHANGE_CHUNKVERSIONINC) EXCEPT
                    !.cvi = inc, !.req = r]
        w1 == [w EXCEPT !.chunkVersionInc = inc, !.reqs = Append(@, ccvi)]
    IN submit_request(w1, id)

handle_lookup(w, r) ==
    [w EXCEPT !.reqs[r].status = lookup(w, w.reqs[r].name)]

handle_create(w, r) ==
    LET res == create(w, w.reqs[r].name)
    IN [res.w EXCEPT !.reqs[r].status = res.status, !.reqs[r].fid = res.fid]

handle_remove(w, r) ==
    LET res == remove(w, w.reqs[r].name)
    IN [res.w EXCEPT !.reqs[r].status = res.status]

handle_change_chunkVersionInc(w, r) ==
    [w EXCEPT !.reqs[r].status = 0]

\* a faulty variant: a file is read like a directory
handle_readdir_anyfid(w, r) ==
    LET req == w.reqs[r]
    IN IF ~file_exists(w, req.dir)
       THEN [w EXCEPT !.reqs[r].status = -ENOENT]
       ELSE LET res == readdir(w, req.dir)
            IN [w EXCEPT !.reqs[r].status = res.status, !.reqs[r].v = res.v]

handle_readdir(w, r) ==
    LET req == w.reqs[r]
    IN IF ~file_exists(w, req.dir)
       THEN [w EXCEPT !.reqs[r].status = -ENOENT]
       ELSE IF ~is_dir(w, req.dir)
       THEN [w EXCEPT !.reqs[r].status = -ENOTDIR]
       ELSE LET res == readdir(w, req.dir)
            IN [w EXCEPT !.reqs[r].status = res.status, !.reqs[r].v = res.v]

\* a faulty variant: the servers are listed whatever the mapping answers
handle_getalloc_nocheck(w, r) ==
    LET req == w.reqs[r]
    IN IF ~file_exists(w, req.fid)
       THEN [w EXCEPT !.reqs[r].status = -ENOENT]
       ELSE LET res == getalloc(w, req.fid, req.offset)
            IN IF res.status # 0
               THEN [w EXCEPT !.reqs[r].status = res.status]
               ELSE LET m == GetChunkToServerMapping(w, res.chunkInfo.chunkId)
                    IN [w EXCEPT !.reqs[r].chunkId = res.chunkInfo.chunkId,
                                 !.reqs[r].chunkVersion = res.chunkInfo.chunkVersion,
                                 !.reqs[r].asked = @ + 1,
                                 !.reqs[r].locations = @ \o m.c,
                                 !.reqs[r].status = 0]

\* asked counts the calls of GetChunkToServerMapping made for the request
handle_getalloc(w, r) ==
    LET req == w.reqs[r]
    IN IF ~file_exists(w, req.fid)
       THEN [w EXCEPT !.reqs[r].status = -ENOENT]
       ELSE LET res == getalloc(w, req.fid, req.offset)
            IN IF res.status # 0
               THEN [w EXCEPT !.reqs[r].status = res.status]
               ELSE LET m == GetChunkToServerMapping(w, res.chunkInfo.chunkId)
                        w1 == [w EXCEPT !.reqs[r].chunkId = res.chunkInfo.chunkId,
                                        !.reqs[r].chunkVersion =
                                            res.chunkInfo.chunkVersion,
                                        !.reqs[r].asked = @ + 1]
                    IN IF m.status # 0
                       THEN [w1 EXCEPT !.reqs[r].status = -ENOENT]
                       ELSE [w1 EXCEPT !.reqs[r].locations = @ \o m.c,
                                       !.reqs[r].status = 0]

RECURSIVE getlayout_loop(_, _, _, _)
\* the loop of handle_getlayout from chunk i on
getlayout_loop(w, r, chunkInfo, i) ==
    IF i > Len(chunkInfo)
    THEN [w EXCEPT !.reqs[r].status = 0]
    ELSE LET m == GetChunkToServerMapping(w, chunkInfo[i].chunkId)
             w1 == [w EXCEPT !.reqs[r].asked = @ + 1]
         IN IF m.status # 0
            THEN [w1 EXCEPT !.reqs[r].status = -EHOSTUNREACH]
            ELSE getlayout_loop(
                     [w1 EXCEPT !.reqs[r].v =
                         Append(@, [offset |-> chunkInfo[i].offset,
                                    chunkId |-> chunkInfo[i].chunkId,
                                    chunkVersion |-> chunkInfo[i].chunkVersion,
                                    locations |-> m.c])],
                     r, chunkInfo, i + 1)

handle_getlayout(w, r) ==
    LET req == w.reqs[r]
    IN IF ~file_exists(w, req.fid)
       THEN [w EXCEPT !.reqs[r].status = -ENOENT]
       ELSE LET res == getalloc_all(w, req.fid)
            IN IF res.status # 0
               THEN [w EXCEPT !.reqs[r].status = res.status]
               ELSE getlayout_loop(w, r, res.chunkInfo, 1)

\* a faulty variant: the request is not suspended after the RPC is queued
allocate_start_nosuspend(w, r, env) ==
    LET req == w.reqs[r]
        a == allocateChunkId(w, req.fid, req.offset, req.chunkVersion)
        w1 == [w EXCEPT !.chunkIDseed = a.seed,
                        !.reqs[r].chunkId = a.chunkId,
                        !.reqs[r].chunkVersion = a.chunkVersion,
                        !.reqs[r].status = a.status]
    IN IF a.status # 0 /\ a.status # -EEXIST
       THEN w1
       ELSE IF a.status = -EEXIST
       THEN LET l == GetChunkWriteLease(w1, r, env.lease)
                w2 == [l.w EXCEPT !.reqs[r].status = l.status]
            IN IF l.status # 0 THEN w2
               ELSE IF ~l.isNewLease THEN w2
               ELSE [w2 EXCEPT !.reqs[r].suspended = TRUE]
       ELSE LET p == AllocateChunk(w1, r, env.place)
            IN IF p.status # 0
               THEN [p.w EXCEPT !.reqs[r].status = -ENOSPC]
               ELSE p.w

\* a faulty variant: a live write lease is treated like a new one
allocate_start_waits(w, r, env) ==
    LET req == w.reqs[r]
        a == allocateChunkId(w, req.fid, req.offset, req.chunkVersion)
        w1 == [w EXCEPT !.chunkIDseed = a.seed,
                        !.reqs[r].chunkId = a.chunkId,
                        !.reqs[r].chunkVersion = a.chunkVersion,
                        !.reqs[r].status = a.status]
    IN IF a.status # 0 /\ a.status # -EEXIST
       THEN w1
       ELSE IF a.status = -EEXIST
       THEN LET l == GetChunkWriteLease(w1, r, env.lease)
                w2 == [l.w EXCEPT !.reqs[r].status = l.status]
            IN IF l.status # 0 THEN w2
               ELSE [w2 EXCEPT !.reqs[r].suspended = TRUE]
       ELSE LET p == AllocateChunk(w1, r, env.place)
            IN IF p.status # 0
               THEN [p.w EXCEPT !.reqs[r].status = -ENOSPC]
               ELSE [p.w EXCEPT !.reqs[r].suspended = TRUE]

\* handle_allocate, first invocation (layoutDone = false)
allocate_start(w, r, env) ==
    LET req == w.reqs[r]
        a == allocateChunkId(w, req.fid, req.offset, req.chunkVersion)
        w1 == [w EXCEPT !.chunkIDseed = a.seed,
                        !.reqs[r].chunkId = a.chunkId,
                        !.reqs[r].chunkVersion = a.chunkVersion,
                        !.reqs[r].status = a.status]
    IN IF a.status # 0 /\ a.status # -EEXIST
       THEN w1
       ELSE IF a.status = -EEXIST
       THEN LET l == GetChunkWriteLease(w1, r, env.lease)
                w2 == [l.w EXCEPT !.reqs[r].status = l.status]
            IN IF l.status # 0 THEN w2
               ELSE IF ~l.isNewLease THEN w2
               ELSE [w2 EXCEPT !.reqs[r].suspended = TRUE]
       ELSE LET p == AllocateChunk(w1, r, env.place)
            IN IF p.status # 0
               THEN [p.w EXCEPT !.reqs[r].status = -ENOSPC]
               ELSE [p.w EXCEPT !.reqs[r].suspended = TRUE]

\* a faulty variant: the failed request is not kept suspended
allocate_failed_unsuspended(w, r) ==
    LET req == w.reqs[r]
        v == getChunkVersion(w, req.fid, req.chunkId)
        w1 == [w EXCEPT !.reqs[r].status = -EALLOCFAILED,
                        !.reqs[r].chunkVersion = v]
        w2 == IF v > 0
              THEN NotifyChunkVersChange(w1, r, req.fid, req.chunkId, v)
              ELSE RemoveChunkToServerMapping(w1, req.chunkId)
    IN ChangeIncarnationNumber([w2 EXCEPT !.reqs[r].suspended = FALSE], r)

\* a faulty variant: the increment is left alone
allocate_failed_nobump(w, r) ==
    LET req == w.reqs[r]
        v == getChunkVersion(w, req.fid, req.chunkId)
        w1 == [w EXCEPT !.reqs[r].status = -EALLOCFAILED,
                        !.reqs[r].chunkVersion = v]
        w2 == IF v > 0
              THEN NotifyChunkVersChange(w1, r, req.fid, req.chunkId, v)
              ELSE RemoveChunkToServerMapping(w1, req.chunkId)
        id == Len(w.reqs) + 1
        ccvi == [NewReq(META_CHANGE_CHUNKVERSIONINC) EXCEPT
                    !.cvi = w.chunkVersionInc, !.req = r]
    IN submit_request([w2 EXCEPT !.reqs[r].suspended = TRUE,
                                 !.reqs = Append(@, ccvi)], id)

\* a faulty variant: the chunkservers are not told to reset the version
allocate_failed_nonotify(w, r) ==
    LET req == w.reqs[r]
        v == getChunkVersion(w, req.fid, req.chunkId)
        w1 == [w EXCEPT !.reqs[r].status = -EALLOCFAILED,
                        !.reqs[r].chunkVersion = v]
        w2 == IF v > 0 THEN w1
              ELSE RemoveChunkToServerMapping(w1, req.chunkId)
    IN ChangeIncarnationNumber([w2 EXCEPT !.reqs[r].suspended = TRUE], r)

\* a faulty variant: the chunkservers are reset to the version of the request
\* (the bumped one) instead of the version of the tree
allocate_failed_keepversion(w, r) ==
    LET req == w.reqs[r]
        v == getChunkVersion(w, req.fid, req.chunkId)
        w1 == [w EXCEPT !.reqs[r].status = -EALLOCFAILED]
        w2 == IF v > 0
              THEN NotifyChunkVersChange(w1, r, req.fid, req.chunkId,
                                         req.chunkVersion)
              ELSE RemoveChunkToServerMapping(w1, req.chunkId)
    IN ChangeIncarnationNumber([w2 EXCEPT !.reqs[r].suspended = TRUE], r)

\* a faulty variant: the mapping of a chunk whose first allocation failed is kept
allocate_failed_keepmapping(w, r) ==
    LET req == w.reqs[r]
        v == getChunkVersion(w, req.fid, req.chunkId)
        w1 == [w EXCEPT !.reqs[r].status = -EALLOCFAILED,
                        !.reqs[r].chunkVersion = v]
        w2 == IF v > 0
              THEN NotifyChunkVersChange(w1, r, req.fid, req.chunkId, v)
              ELSE w1
    IN ChangeIncarnationNumber([w2 EXCEPT !.reqs[r].suspended = TRUE], r)

\* handle_allocate, resumed with status # 0
allocate_failed(w, r) ==
    LET req == w.reqs[r]
        v == getChunkVersion(w, req.fid, req.chunkId)
        w1 == [w EXCEPT !.reqs[r].status = -EALLOCFAILED,
                        !.reqs[r].chunkVersion = v]
        w2 == IF v > 0
              THEN NotifyChunkVersChange(w1, r, req.fid, req.chunkId, v)
              ELSE RemoveChunkToServerMapping(w1, req.chunkId)
    IN ChangeIncarnationNumber([w2 EXCEPT !.reqs[r].suspended = TRUE], r)

\* a faulty variant: the request is retired without the tree being updated
allocate_done_noassign(w, r) ==
    [w EXCEPT !.reqs[r].suspended = FALSE]

\* handle_allocate, resumed with status = 0
allocate_done(w, r) ==
    LET req == w.reqs[r]
        w1 == [w EXCEPT !.reqs[r].suspended = FALSE]
        res == assignChunkId(w1, req.fid, req.offset, req.chunkId,
                             req.chunkVersion)
    IN [res.w EXCEPT !.reqs[r].status = res.status]

handle_allocate(w, r, env) ==
    IF ~w.reqs[r].layoutDone THEN allocate_start(w, r, env)
    ELSE IF w.reqs[r].status # 0 THEN allocate_failed(w, r)
    ELSE allocate_done(w, r)

\* handle_truncate: an extension creates an Allocate tied to the Truncate,
\* suspends the Truncate and runs the Allocate handler right away
handle_truncate(w, r, env) ==
    LET req == w.reqs[r]
        res == truncate(w, req.fid, req.offset)
        w1 == [res.w EXCEPT !.reqs[r].status = res.status]
    IN IF res.status > 0
       THEN LET id == Len(w.reqs) + 1
                alloc == [NewReq(META_ALLOCATE) EXCEPT
                             !.fid = req.fid, !.offset = res.allocOffset,
                             !.req = r]
                w2 == [w1 EXCEPT !.reqs = Append(@, alloc),
                                 !.reqs[r].suspended = TRUE]
            IN handle_allocate(w2, id, env)
       ELSE w1

Handled == {META_LOOKUP, META_CREATE, META_REMOVE, META_ALLOCATE,
            META_TRUNCATE, META_CHANGE_CHUNKVERSIONINC, META_READDIR,
            META_GETALLOC, META_GETLAYOUT}

\* the handler map built by setup_handlers
handler(w, r, env) ==
    LET op == w.reqs[r].op
    IN CASE op = META_LOOKUP -> handle_lookup(w, r)
         [] op = META_CREATE -> handle_create(w, r)
         [] op = META_REMOVE -> handle_remove(w, r)
         [] op = META_ALLOCATE -> handle_allocate(w, r, env)
         [] op = META_TRUNCATE -> handle_truncate(w, r, env)
         [] op = META_CHANGE_CHUNKVERSIONINC -> handle_change_chunkVersionInc(w, r)
         [] op = META_READDIR -> handle_readdir(w, r)
         [] op = META_GETALLOC -> handle_getalloc(w, r)
         [] op = META_GETLAYOUT -> handle_getlayout(w, r)

\* the ops RegisterCounters gives a counter
Registered == {META_LOOKUP, META_CREATE, META_REMOVE, META_ALLOCATE,
               META_TRUNCATE}

UpdateCounter(w, op) ==
    IF op \notin DOMAIN w.gCounters THEN w
    ELSE [w EXCEPT !.gCounters[op] = @ + 1]

\* every op that setup_handlers enters into the handler map
SetupHandlers ==
    {META_LOOKUP, META_LOOKUP_PATH, META_CREATE, META_MKDIR, META_REMOVE,
     META_RMDIR, META_READDIR, META_GETALLOC, META_GETLAYOUT, META_ALLOCATE,
     META_TRUNCATE, META_RENAME, META_CHECKPOINT, META_CHUNK_REPLICATE,
     META_CHUNK_REPLICATION_CHECK, META_HELLO, META_BYE, META_LEASE_ACQUIRE,
     META_LEASE_RENEW, META_LEASE_CLEANUP, META_CHANGE_CHUNKVERSIONINC,
     META_PING, META_STATS}

\* a faulty variant: a request without handler is left as it is, and suspended
dispatch_unknown_suspended(w, r, env) ==
    LET w0 == [w EXCEPT !.dispatchLog = Append(@, r),
                        !.waitAhead = [x \in DOMAIN @ \ {r} |-> @[x]]]
        w1 == IF w0.reqs[r].op \notin Handled
              THEN [w0 EXCEPT !.reqs[r].suspended = TRUE]
              ELSE handler(w0, r, env)
    IN IF w1.reqs[r].suspended
       THEN [w1 EXCEPT !.everSuspended = @ \cup {r}]
       ELSE w1

\* the common part of a dispatch: dequeue, run the handler, note the history
dispatch(w, r, env) ==
    LET w0 == [w EXCEPT !.dispatchLog = Append(@, r),
                        !.waitAhead = [x \in DOMAIN @ \ {r} |-> @[x]]]
        w1 == IF w0.reqs[r].op \notin Handled
              THEN [w0 EXCEPT !.reqs[r].status = -ENOSYS]
              ELSE handler(w0, r, env)
    IN IF w1.reqs[r].suspended
       THEN [w1 EXCEPT !.everSuspended = @ \cup {r}]
       ELSE w1

\* a faulty variant: the request that is not suspended is answered at once
process_request_reply_first(w, env) ==
    LET r == Head(w.requestList)
        w1 == dispatch([w EXCEPT !.requestList = Tail(@)], r, env)
    IN IF ~w1.reqs[r].suspended
       THEN [UpdateCounter(w1, w1.reqs[r].op) EXCEPT
                !.released = @ \cup {r}, !.pending = Append(@, r)]
       ELSE w1

\* a faulty variant: the request is taken from the tail of the queue
process_request_lifo(w, env) ==
    LET r == Last(w.requestList)
        w1 == dispatch([w EXCEPT !.requestList = SubSeq(@, 1, Len(@) - 1)],
                       r, env)
    IN IF ~w1.reqs[r].suspended
       THEN add_pending(UpdateCounter(w1, w1.reqs[r].op), r)
       ELSE w1

\* a faulty variant: a suspended request is counted and logged as well
process_request_always(w, env) ==
    LET r == Head(w.requestList)
        w1 == dispatch([w EXCEPT !.requestList = Tail(@)], r, env)
    IN add_pending(UpdateCounter(w1, w1.reqs[r].op), r)

\* a faulty variant: the request that is not suspended is counted but not logged
process_request_nolog(w, env) ==
    LET r == Head(w.requestList)
        w1 == dispatch([w EXCEPT !.requestList = Tail(@)], r, env)
    IN IF ~w1.reqs[r].suspended
       THEN UpdateCounter(w1, w1.reqs[r].op)
       ELSE w1

\* KFS::process_request
\* a faulty variant: a request that failed is not handed to the log
process_request_skipfailed(w, env) ==
    LET r == Head(w.requestList)
        w1 == dispatch([w EXCEPT !.requestList = Tail(@)], r, env)
    IN IF ~w1.reqs[r].suspended /\ w1.reqs[r].status = 0
       THEN add_pending(UpdateCounter(w1, w1.reqs[r].op), r)
       ELSE w1

process_request(w, env) ==
    LET r == Head(w.requestList)
        w1 == dispatch([w EXCEPT !.requestList = Tail(@)], r, env)
    IN IF ~w1.reqs[r].suspended
       THEN add_pending(UpdateCounter(w1, w1.reqs[r].op), r)
       ELSE w1

----------------------------------------------------------------------------
(* Meta*::response: what the reply of a request carries.  res is the body,  *)
(* as the sequence of the pieces appended to it.                            *)

RECURSIVE readdir_names_all(_, _)
\* a faulty variant: every dentry is listed
readdir_names_all(dir, v) ==
    IF v = <<>> THEN [res |-> <<>>, numEntries |-> 0]
    ELSE LET rest == readdir_names_all(dir, Tail(v))
         IN [res |-> <<Head(v), "\n">> \o rest.res,
             numEntries |-> rest.numEntries + 1]

RECURSIVE readdir_names(_, _)
\* the loop of MetaReaddir::response over the dentries v
readdir_names(dir, v) ==
    IF v = <<>> THEN [res |-> <<>>, numEntries |-> 0]
    ELSE LET rest == readdir_names(dir, Tail(v))
         IN IF dir = ROOTFID /\ Head(v) = "/"
            THEN rest
            ELSE [res |-> <<Head(v), "\n">> \o rest.res,
                  numEntries |-> rest.numEntries + 1]

readdir_response(req) ==
    IF req.status < 0
    THEN [status |-> req.status]
    ELSE LET n == readdir_names(req.dir, req.v)
         IN [status |-> req.status, numEntries |-> n.numEntries, res |-> n.res]

\* MetaGetalloc::response; failed tells that the assertion
\* locations.size() > 0 does not hold, which ends the process
getalloc_response(req) ==
    IF req.status < 0
    THEN [status |-> req.status]
    ELSE [status |-> req.status, chunkId |-> req.chunkId,
          chunkVersion |-> req.chunkVersion,
          numReplicas |-> Len(req.locations),
          failed |-> ~(Len(req.locations) > 0),
          replicas |-> req.locations]

\* the response of a request, by its kind
response(req) ==
    CASE req.op = META_READDIR -> readdir_response(req)
      [] req.op = META_GETALLOC -> getalloc_response(req)
      [] OTHER -> [status |-> req.status]

\* the reply of a released request is written to its connection
send_response(w, r) ==
    [w EXCEPT !.reqs[r].resp = <<response(w.reqs[r])>>]

----------------------------------------------------------------------------
(* Meta*::log: the record a request writes to the log file (<<>>: nothing). *)
(* rid names the request the record belongs to.                             *)

\* a faulty variant: the rename record lacks its end of line
logtext_noeol(req) ==
    CASE req.op = META_CREATE ->
           <<"create", "/dir/", ToString(req.dir), "/name/", req.name,
             "/id/", ToString(req.fid),
             "/numReplicas/", ToString(req.numReplicas), "\n">>
      [] req.op = META_MKDIR ->
           <<"mkdir", "/dir/", ToString(req.dir), "/name/", req.name,
             "/id/", ToString(req.fid), "\n">>
      [] req.op = META_REMOVE ->
           <<"remove", "/dir/", ToString(req.dir), "/name/", req.name, "\n">>
      [] req.op = META_RMDIR ->
           <<"rmdir", "/dir/", ToString(req.dir), "/name/", req.name, "\n">>
      [] req.op = META_ALLOCATE ->
           <<"allocate", "/file/", ToString(req.fid),
             "/offset/", ToString(req.offset),
             "/chunkId/", ToString(req.chunkId),
             "/chunkVersion/", ToString(req.chunkVersion), "\n">>
      [] req.op = META_TRUNCATE ->
           <<"truncate", "/file/", ToString(req.fid),
             "/offset/", ToString(req.offset), "\n">>
      [] req.op = META_RENAME ->
           <<"rename", "/dir/", ToString(req.dir), "/old/", req.name,
             "/new/", req.newname>>
      [] req.op = META_CHANGE_CHUNKVERSIONINC ->
           <<"chunkVersionInc", "/", ToString(req.cvi), "\n">>
      [] OTHER -> <<>>

\* the text a request's log function writes to the file, as the sequence of
\* the pieces it streams (<<>>: it writes nothing)
logtext(req) ==
    CASE req.op = META_CREATE ->
           <<"create", "/dir/", ToString(req.dir), "/name/", req.name,
             "/id/", ToString(req.fid),
             "/numReplicas/", ToString(req.numReplicas), "\n">>
      [] req.op = META_MKDIR ->
           <<"mkdir", "/dir/", ToString(req.dir), "/name/", req.name,
             "/id/", ToString(req.fid), "\n">>
      [] req.op = META_REMOVE ->
           <<"remove", "/dir/", ToString(req.dir), "/name/", req.name, "\n">>
      [] req.op = META_RMDIR ->
           <<"rmdir", "/dir/", ToString(req.dir), "/name/", req.name, "\n">>
      [] req.op = META_ALLOCATE ->
           <<"allocate", "/file/", ToString(req.fid),
             "/offset/", ToString(req.offset),
             "/chunkId/", ToString(req.chunkId),
             "/chunkVersion/", ToString(req.chunkVersion), "\n">>
      [] req.op = META_TRUNCATE ->
           <<"truncate", "/file/", ToString(req.fid),
             "/offset/", ToString(req.offset), "\n">>
      [] req.op = META_RENAME ->
           <<"rename", "/dir/", ToString(req.dir), "/old/", req.name,
             "/new/", req.newname, "\n">>
      [] req.op = META_CHANGE_CHUNKVERSIONINC ->
           <<"chunkVersionInc", "/", ToString(req.cvi), "\n">>
      [] OTHER -> <<>>

log(w, r) ==
    LET req == w.reqs[r]
        text == logtext(req)
    IN CASE req.op = META_CREATE ->
              <<[opcode |-> "create", rid |-> r, name |-> req.name, id |-> req.fid,
                 text |-> text]>>
         [] req.op = META_REMOVE ->
              <<[opcode |-> "remove", rid |-> r, name |-> req.name, text |-> text]>>
         [] req.op = META_ALLOCATE ->
              <<[opcode |-> "allocate", rid |-> r, file |-> req.fid,
                 offset |-> req.offset, chunkId |-> req.chunkId,
                 chunkVersion |-> req.chunkVersion, text |-> text]>>
         [] req.op = META_TRUNCATE ->
              <<[opcode |-> "truncate", rid |-> r, file |-> req.fid,
                 offset |-> req.offset, text |-> text]>>
         [] req.op = META_CHANGE_CHUNKVERSIONINC ->
              <<[opcode |-> "chunkVersionInc", rid |-> r, cvi |-> req.cvi,
                 text |-> text]>>
         [] OTHER ->
              IF text = <<>> THEN <<>>
              ELSE <<[opcode |-> Head(text), rid |-> r, name |-> req.name,
                      text |-> text]>>

----------------------------------------------------------------------------
(* Operation log: the log thread.  It consumes pending in order, writes the  *)
(* record of a request that succeeded, and releases responses only after a   *)
(* flush has made every written record durable.                              *)

logger_write(w) ==
    LET r == w.pending[w.nwritten + 1]
        rec == IF w.reqs[r].status = 0 THEN log(w, r) ELSE <<>>
    IN [w EXCEPT !.nwritten = @ + 1, !.logfile = @ \o rec]

\* the ids consumed by the log thread whose response is still held back
Unreleased(w) ==
    SelectSeq(SubSeq(w.pending, 1, w.nwritten), LAMBDA r : r \notin w.released)

RECURSIVE complete_dependents(_, _)
\* a request that waited for a chunkVersionInc record is completed once that
\* record is durable: it is no longer suspended and passes through the log.
\* A Truncate that waited for its Allocate is completed the same way, with the
\* status of the Allocate.
complete_dependents(w, done) ==
    IF done = <<>> THEN w
    ELSE LET c == w.reqs[Head(done)]
             w1 == IF c.op = META_CHANGE_CHUNKVERSIONINC /\ c.req # 0
                   THEN add_pending([w EXCEPT !.reqs[c.req].suspended = FALSE],
                                    c.req)
                   ELSE IF c.op = META_ALLOCATE /\ c.req # 0
                   THEN add_pending([w EXCEPT !.reqs[c.req].suspended = FALSE,
                                              !.reqs[c.req].status = c.status],
                                    c.req)
                   ELSE w
         IN complete_dependents(w1, Tail(done))

logger_flush(w) ==
    LET done == Unreleased(w)
        w1 == [w EXCEPT !.committed = Len(w.logfile),
                        !.released = @ \cup Range(done)]
    IN complete_dependents(w1, done)

----------------------------------------------------------------------------
(* Chunkserver replies *)

\* the reply to an awaited RPC: the status is carried to the request; when no
\* reply is outstanding the request is resumed with layoutDone = true.
chunk_reply(w, m, ok) ==
    LET r == m.req
        rest == w.rpcs \ {m}
        w1 == [w EXCEPT !.rpcs = rest,
                        !.reqs[r].status = IF ok THEN @ ELSE -ESERVERBUSY]
    IN IF \E x \in rest : x.req = r
       THEN w1
       ELSE resume_request([w1 EXCEPT !.reqs[r].layoutDone = TRUE], r)

----------------------------------------------------------------------------
(* Clients *)

ClientRequests ==
    {[NewReq(op) EXCEPT !.name = n] :
        op \in {META_LOOKUP, META_CREATE, META_REMOVE}, n \in Names}
    \cup
    {[NewReq(META_ALLOCATE) EXCEPT !.fid = f, !.offset = o] :
        f \in (ROOTFID + 1)..MaxOf(ROOTFID + 1, fileIDseed), o \in Offsets}

client_submit(w, req) ==
    submit_request([w EXCEPT !.reqs = Append(@, req), !.nclient = @ + 1],
                   Len(w.reqs) + 1)

----------------------------------------------------------------------------
(* Checkpointer (checkpoint.cc).  cp holds the members of the Checkpoint     *)
(* object that the start protocol uses, and the position of each thread      *)
(* that calls it: the dispatcher (lock_running, unlock_running), the log     *)
(* thread (start_CP when it retires a Checkpoint request), the timer thread  *)
(* (cptimer) and the checkpoint thread (cp_main, do_CP).  Every section      *)
(* between writer.lock() and writer.unlock() is one step.                    *)

\* the Checkpoint object after construction, every thread at rest, the latest
\* checkpoint file present
CheckpointIdle ==
    [running |-> FALSE, mutations |-> 0, nostart |-> FALSE,
     startblocked |-> FALSE, cpcount |-> 0,
     startit |-> FALSE,     \* unlock_running: its local startit
     lockret |-> FALSE,     \* lock_running: the value it returned last
     activeNode |-> 0,      \* the node the leaf iterator holds (0: NULL)
     zombie |-> 0,          \* number of entities in the zombie queue
     dpc |-> "idle",        \* dispatcher: idle, lock_ret, locked, unlock_start
     apc |-> "none",        \* dispatcher: none, sleeping and woken (in
                            \* wait_if_active), modify (it may change the node)
     dnode |-> 0,           \* dispatcher: the node it is about to change
     tpc |-> "sleep",       \* timer: sleep, checked, wait (in wait_for_cp)
     needed |-> FALSE,      \* cptimer: the result of its isCPNeeded call
     expiries |-> 0,        \* cptimer: alarms seen
     cpreq |-> 0,           \* Checkpoint requests on their way to the log thread
     rotations |-> 0,       \* oplog: finishLog calls (log rotations)
     wpc |-> "wait",        \* checkpoint thread: wait, body, leaves, leaf,
                            \* advance, leaves_end, zombies, close, link, end
     li |-> 0,              \* write_leaves: the leaf the iterator is at
     files |-> 0,           \* checkpoint files opened
     open |-> FALSE,        \* the checkpoint file of this run is open
     latest |-> 0,          \* the file (by its number) the latest link names
     status |-> 0,          \* do_CP: its status
     zombied |-> 0,         \* history: entities ever put in the zombie queue
     zwritten |-> 0,        \* history: zombies written to a checkpoint file
     last |-> "none",       \* history: the case of the last start_CP call
     lastby |-> "none"]     \* history: its caller (log, unlock)

\* the metadata tree as the leaf iterator sees it: nodes 1..MaxNodes, each the
\* parent of two consecutive leaves, the last one of a single leaf
Nodes == 1..MaxNodes
NumLeaves == 2 * MaxNodes - 1
Parent(i) == IF i > NumLeaves THEN 0 ELSE (i + 1) \div 2

\* writer.wakeup(): a thread asleep on the writer condition is made runnable
\* (the checkpoint thread's sleep in do_CP is the guard of its first step)
wakeup(c) == [c EXCEPT !.apc = IF @ = "sleeping" THEN "woken" ELSE @]

\* Checkpoint::isCPNeeded
isCPNeeded(c) == ~c.running /\ c.mutations # 0

\* a faulty variant: a start is not held back by nostart
start_CP_unblocked(c) ==
    IF ~c.running /\ c.mutations # 0
    THEN [c EXCEPT !.running = TRUE, !.mutations = 0]
    ELSE c

\* a faulty variant: a start does not look at running
start_CP_again(c) ==
    IF c.mutations # 0
    THEN IF c.nostart
         THEN [c EXCEPT !.startblocked = TRUE]
         ELSE [c EXCEPT !.running = TRUE, !.mutations = 0]
    ELSE c

\* Checkpoint::start_CP
start_CP(c) ==
    IF ~c.running /\ c.mutations # 0
    THEN IF c.nostart
         THEN [c EXCEPT !.startblocked = TRUE]
         ELSE [wakeup(c) EXCEPT !.running = TRUE, !.mutations = 0]
    ELSE c

\* history: the case a start_CP call finds
StartCase(c) ==
    IF c.running THEN "running"
    ELSE IF c.mutations = 0 THEN "nomutations"
    ELSE IF c.nostart THEN "nostart"
    ELSE "start"

\* a faulty variant: nostart is not set
lock_running_noflag(c) == [c EXCEPT !.dpc = "lock_ret"]

\* Checkpoint::lock_running: the locked section, and then the read of running
\* for the return value, which is made after the unlock
lock_running(c) == [c EXCEPT !.nostart = TRUE, !.dpc = "lock_ret"]

lock_running_return(c) == [c EXCEPT !.lockret = c.running, !.dpc = "locked"]

\* Checkpoint::unlock_running: the locked section, and then the deferred start
unlock_running(c) ==
    [c EXCEPT !.nostart = FALSE, !.startit = c.startblocked,
              !.startblocked = FALSE,
              !.dpc = IF c.startblocked THEN "unlock_start" ELSE "idle"]

unlock_running_start(c) ==
    [start_CP(c) EXCEPT !.startit = FALSE, !.dpc = "idle",
                        !.last = StartCase(c), !.lastby = "unlock"]

\* Checkpoint::note_mutation
note_mutation(c) == [c EXCEPT !.mutations = @ + 1]

\* cptimer: the alarm and the isCPNeeded call
cptimer_check(c) ==
    [c EXCEPT !.expiries = @ + 1, !.needed = isCPNeeded(c), !.tpc = "checked"]

\* cptimer: continue, or submit a Checkpoint request and wait for the log
cptimer_post(c) ==
    IF ~c.needed
    THEN [c EXCEPT !.tpc = "sleep"]
    ELSE [c EXCEPT !.cpreq = @ + 1, !.tpc = "wait", !.needed = FALSE]

\* the log thread retires a Checkpoint request: MetaCheckpoint::log closes the
\* log (finishLog), the checkpoint is started, and the thread in wait_for_cp
\* goes on
logger_checkpoint(c) ==
    LET c1 == [c EXCEPT !.cpreq = @ - 1, !.rotations = @ + 1,
                        !.tpc = IF @ = "wait" THEN "sleep" ELSE @,
                        !.last = StartCase(c), !.lastby = "log"]
    IN start_CP(c1)

\* a faulty variant: the active node is replaced without waking the waiter
save_active_nowake(c, n) == [c EXCEPT !.activeNode = n]

\* Checkpoint::save_active
save_active(c, n) ==
    [(IF c.activeNode # 0 THEN wakeup(c) ELSE c) EXCEPT !.activeNode = n]

\* a faulty variant: the mutator does not wait for the active node
wait_if_active_nowait(c, n) == [c EXCEPT !.apc = "modify", !.dnode = n]

\* Checkpoint::wait_if_active: the locked test; the caller sleeps while the
\* iterator holds n, and goes on to change the node after the unlock
wait_if_active(c, n) ==
    [c EXCEPT !.apc = IF c.activeNode = n THEN "sleeping" ELSE "modify",
              !.dnode = n]

\* Checkpoint::wait_if_active: the test is made again after a wakeup
wait_if_active_again(c) ==
    [c EXCEPT !.apc = IF c.activeNode = c.dnode THEN "sleeping" ELSE "modify"]

\* the dispatcher changes the node it asked for
modify_node(c) == [c EXCEPT !.apc = "none", !.dnode = 0]

\* the dispatcher detaches an entity: it goes to the zombie queue
zombie_enqueue(c) == [c EXCEPT !.zombie = @ + 1, !.zombied = @ + 1]

\* a faulty variant: the wakeup is lost, the thread sleeps on
do_CP_wait_asleep(c) == c

\* do_CP: the wait for running
do_CP_wait(c) == [c EXCEPT !.wpc = "body"]

\* do_CP: the checkpoint file is opened and its header written (ok), or it
\* cannot be opened
do_CP_body(c, ok) ==
    IF ok
    THEN [c EXCEPT !.status = 0, !.files = @ + 1, !.open = TRUE,
                   !.wpc = "leaves"]
    ELSE [c EXCEPT !.status = -EIO, !.wpc = "end"]

\* write_leaves: the test of its loop
write_leaves_loop(c) ==
    [c EXCEPT !.wpc = IF c.status = 0 /\ c.li <= NumLeaves
                      THEN "leaf" ELSE "leaves_end"]

\* write_leaves: the iterator is set on the first leaf and its parent saved
write_leaves_first(c) ==
    write_leaves_loop([save_active(c, Parent(1)) EXCEPT !.li = 1])

\* write_leaves: one leaf is written (ok: without error) and the iterator
\* moves on
write_leaves_leaf(c, ok) ==
    LET c1 == [c EXCEPT !.status = IF ok THEN 0 ELSE -EIO, !.li = @ + 1]
    IN IF Parent(c1.li) # c1.activeNode
       THEN [c1 EXCEPT !.wpc = "advance"]
       ELSE write_leaves_loop(c1)

\* write_leaves: the parent of the next leaf becomes the active node
write_leaves_advance(c) == write_leaves_loop(save_active(c, Parent(c.li)))

\* a faulty variant: after a failed leaf the active node is left as it is
write_leaves_end_keep(c) ==
    IF c.status = 0
    THEN [save_active(c, 0) EXCEPT !.wpc = "zombies"]
    ELSE [c EXCEPT !.wpc = "close"]

\* write_leaves: save_active(NULL) after the loop; do_CP goes on to the
\* zombies when the leaves were written without error
write_leaves_end(c) ==
    [save_active(c, 0) EXCEPT !.wpc = IF c.status = 0 THEN "zombies" ELSE "close"]

\* write_zombies: one entity is taken off the queue, written (ok: without
\* error) and deleted; the first error is the status
write_zombies_one(c, ok) ==
    [c EXCEPT !.zombie = @ - 1, !.zwritten = @ + 1,
              !.status = IF @ = 0 /\ ~ok THEN -EIO ELSE @]

\* write_zombies: the queue is empty
write_zombies_done(c) == [c EXCEPT !.wpc = "close"]

\* do_CP: file.close()
do_CP_close(c) == [c EXCEPT !.open = FALSE, !.wpc = "link"]

\* a faulty variant: the link is left alone
do_CP_link_skip(c) == [c EXCEPT !.wpc = "end"]

\* do_CP: link_latest(cpname, LASTCP)
do_CP_link(c) == [c EXCEPT !.latest = c.files, !.wpc = "end"]

\* a faulty variant: the run ends without the count
do_CP_end_nocount(c) == [c EXCEPT !.running = FALSE, !.wpc = "wait"]

\* do_CP: the final locked section
do_CP_end(c) ==
    [c EXCEPT !.running = FALSE, !.cpcount = @ + 1, !.wpc = "wait"]

----------------------------------------------------------------------------
----------------------------------------------------------------------------
(* ParseCommand and the parse handlers (request.cc) *)

NUM_REPLICAS_PER_FILE == 3

\* the headers of a message: header name -> <<>> (absent) or <<value>>
HeaderKeys == {"Cseq", "Parent File-handle", "Filename", "Num-replicas",
               "Chunk-handle", "Lease-id", "Lease-type"}

\* values of the Num-replicas header: around the range, and around the width of int16_t
NumReplicasValues ==
    (-MaxNumReplicas .. MaxNumReplicas) \cup {32767, 32768, 65535, 65536, 65537}

Optional(S) == {<<>>} \cup {<<v>> : v \in S}

Commands == {"LOOKUP", "CREATE", "LEASE_ACQUIRE", "LEASE_RENEW", "NOSUCHCMD"}

Properties ==
    {  ("Cseq" :> cseq) @@ ("Parent File-handle" :> dir) @@ ("Filename" :> name)
    @@ ("Num-replicas" :> nrep) @@ ("Chunk-handle" :> chunk)
    @@ ("Lease-id" :> lease) @@ ("Lease-type" :> ltype) :
       cseq \in Optional({1}), dir \in Optional({-1, ROOTFID}),
       name \in Optional(Names), nrep \in Optional(NumReplicasValues),
       chunk \in Optional({1}), lease \in Optional({1}),
       ltype \in Optional({"READ_LEASE", "WRITE_LEASE", "NO_LEASE"}) }

Messages == {[cmd |-> c, prop |-> p] : c \in Commands, p \in Properties}

\* Properties::getValue(key, default)
hasValue(prop, key) == Len(prop[key]) > 0
getValue(prop, key, def) == IF hasValue(prop, key) THEN prop[key][1] ELSE def

\* the conversion of an int to int16_t
int16(v) == ((v + 32768) % 65536) - 32768

\* what a parse handler gives back: its return value and the object stored in *r
ParseFailed == [ret |-> -1, req |-> <<>>]
ParseOk(r) == [ret |-> 0, req |-> <<r>>]

\* a faulty variant: the request is built whatever the headers
parseHandlerLookup_nocheck(prop) ==
    ParseOk([op |-> META_LOOKUP, opSeqno |-> getValue(prop, "Cseq", -1),
             dir |-> getValue(prop, "Parent File-handle", -1),
             name |-> getValue(prop, "Filename", "")])

parseHandlerLookup(prop) ==
    LET seq == getValue(prop, "Cseq", -1)
        dir == getValue(prop, "Parent File-handle", -1)
    IN IF dir < 0 THEN ParseFailed
       ELSE IF ~hasValue(prop, "Filename") THEN ParseFailed
       ELSE ParseOk([op |-> META_LOOKUP, opSeqno |-> seq, dir |-> dir,
                     name |-> prop["Filename"][1]])

parseHandlerCreate(prop) ==
    LET seq == getValue(prop, "Cseq", -1)
        dir == getValue(prop, "Parent File-handle", -1)
        numReplicas == int16(getValue(prop, "Num-replicas", 1))
    IN IF dir < 0 THEN ParseFailed
       ELSE IF ~hasValue(prop, "Filename") THEN ParseFailed
       ELSE IF numReplicas = 0 THEN ParseFailed
       ELSE ParseOk([op |-> META_CREATE, opSeqno |-> seq, dir |-> dir,
                     name |-> prop["Filename"][1],
                     numReplicas |-> IF numReplicas > NUM_REPLICAS_PER_FILE
                                     THEN NUM_REPLICAS_PER_FILE ELSE numReplicas])

parseHandlerLeaseAcquire(prop) ==
    ParseOk([op |-> META_LEASE_ACQUIRE, opSeqno |-> getValue(prop, "Cseq", -1),
             chunkId |-> getValue(prop, "Chunk-handle", -1)])

parseHandlerLeaseRenew(prop) ==
    LET leaseTypeStr == getValue(prop, "Lease-type", "READ_LEASE")
    IN ParseOk([op |-> META_LEASE_RENEW, opSeqno |-> getValue(prop, "Cseq", -1),
                leaseType |-> IF leaseTypeStr = "WRITE_LEASE" THEN "WRITE_LEASE"
                              ELSE "READ_LEASE",
                chunkId |-> getValue(prop, "Chunk-handle", -1),
                leaseId |-> getValue(prop, "Lease-id", -1)])

\* gParseHandlers, as far as it is modelled
ParseHandlers == {"LOOKUP", "CREATE", "LEASE_ACQUIRE", "LEASE_RENEW"}

ParseCommand(m) ==
    IF m.cmd \notin ParseHandlers THEN ParseFailed
    ELSE CASE m.cmd = "LOOKUP" -> parseHandlerLookup(m.prop)
           [] m.cmd = "CREATE" -> parseHandlerCreate(m.prop)
           [] m.cmd = "LEASE_ACQUIRE" -> parseHandlerLeaseAcquire(m.prop)
           [] m.cmd = "LEASE_RENEW" -> parseHandlerLeaseRenew(m.prop)

NoParse ==
    [called |-> FALSE, msg |-> [cmd |-> "", prop |-> [k \in HeaderKeys |-> <<>>]],
     ret |-> 0, req |-> <<>>]

----------------------------------------------------------------------------
(* NetManager (libkfsIO/NetManager.cc).  net holds the connection list, the  *)
(* descriptor of every connection object, the three descriptor sets of the   *)
(* current poll and the position of MainLoop.  What a handler does is code   *)
(* of the connection's owner: it may close its own or another connection     *)
(* and may add a connection to the list.                                     *)

Conns == 1..MaxConns

\* MainLoop is entered with the listening connection in the list
NetStart ==
    [mConnections |-> <<1>>,
     fd |-> [c \in Conns |-> IF c = 1 THEN 1 ELSE -1],
                            \* GetFd() of each connection object (-1: closed)
     created |-> 1,         \* connection objects made so far
     pc |-> "poll",         \* MainLoop: poll, timeout, read, write, error,
                            \* remove, aborted (the assertion failed)
     iter |-> 1,            \* the position of iter in mConnections
     readSet |-> {}, writeSet |-> {}, errSet |-> {},
     closedNow |-> {},      \* history: connections closed in this iteration
     badcall |-> FALSE]     \* history: a handler ran on a closed connection

\* what a handler may do to the connections
Effects(n) ==
    {[close |-> cl, add |-> a] :
        cl \in {{}} \cup {{c} : c \in {c \in Conns : n.fd[c] > 0}},
        a \in {FALSE} \cup {x \in {TRUE} : n.created < MaxConns}}

\* the lowest descriptor that is not open
FreeFd(fd) == CHOOSE k \in 1..(MaxConns + 1) :
                 /\ \A c \in Conns : fd[c] # k
                 /\ \A j \in 1..(k - 1) : \E c \in Conns : fd[c] = j

\* NetConnection::Close on the connections of eff.close, and AddConnection of
\* a new connection
apply_effect(n, eff) ==
    LET n1 == [n EXCEPT !.fd = [c \in Conns |-> IF c \in eff.close THEN -1 ELSE @[c]],
                        !.closedNow = @ \cup eff.close]
    IN IF eff.add
       THEN [n1 EXCEPT !.created = @ + 1,
                       !.fd[n1.created + 1] = FreeFd(n1.fd),
                       !.mConnections = Append(@, n1.created + 1)]
       ELSE n1

\* the head of an iteration: the poll vector is built, with the assertion on
\* every descriptor of the list, and select fills the three sets (a select
\* that fails starts the iteration again and changes nothing)
poll(n, r, w, e) ==
    IF \E i \in DOMAIN n.mConnections : ~(n.fd[n.mConnections[i]] > 0)
    THEN [n EXCEPT !.pc = "aborted"]
    ELSE [n EXCEPT !.readSet = r, !.writeSet = w, !.errSet = e,
                   !.closedNow = {}, !.pc = "timeout"]

\* the position after the handling loop has moved its iterator
loop_test(n) ==
    [n EXCEPT !.pc = IF n.iter > Len(n.mConnections) THEN "poll" ELSE "read"]

\* the timeout handlers are called back, and the handling loop begins
timeout_handlers(n, eff) ==
    loop_test([apply_effect(n, eff) EXCEPT !.iter = 1])

\* history: a handler is invoked on connection c
invoke(n, c) ==
    [n EXCEPT !.badcall = @ \/ c \in n.closedNow \/ ~(n.fd[c] > 0)]

\* the read event of the connection at iter
handle_read(n, eff) ==
    LET c == n.mConnections[n.iter]
        fd == n.fd[c]
    IN IF fd > 0 /\ fd \in n.readSet
       THEN [apply_effect(invoke(n, c), eff) EXCEPT !.readSet = @ \ {fd},
                                                   !.pc = "write"]
       ELSE [n EXCEPT !.pc = "write"]

\* the write event, with the descriptor read again
handle_write(n, eff) ==
    LET c == n.mConnections[n.iter]
        fd == n.fd[c]
    IN IF fd > 0 /\ fd \in n.writeSet
       THEN [apply_effect(invoke(n, c), eff) EXCEPT !.writeSet = @ \ {fd},
                                                   !.pc = "error"]
       ELSE [n EXCEPT !.pc = "error"]

\* the error event, with the descriptor read again
handle_error(n, eff) ==
    LET c == n.mConnections[n.iter]
        fd == n.fd[c]
    IN IF fd > 0 /\ fd \in n.errSet
       THEN [apply_effect(invoke(n, c), eff) EXCEPT !.errSet = @ \ {fd},
                                                   !.pc = "remove"]
       ELSE [n EXCEPT !.pc = "remove"]

\* the connection at iter is erased when it is closed; iter moves on
remove_closed(n) ==
    LET c == n.mConnections[n.iter]
    IN IF n.fd[c] < 0
       THEN loop_test([n EXCEPT !.mConnections =
                          SubSeq(@, 1, n.iter - 1) \o
                          SubSeq(@, n.iter + 1, Len(@))])
       ELSE loop_test([n EXCEPT !.iter = @ + 1])

----------------------------------------------------------------------------
(* TcpSocket (libkfsIO/TcpSocket.cc): DoSynchDiscard and the DoSynchRecv it  *)
(* calls.  The outcome of select and of Recv is an input of each pass of     *)
(* DoSynchRecv's loop; select counts the timeout down to the time left.      *)

bufSize == 4096

Min(a, b) == IF a <= b THEN a ELSE b

SockIdle ==
    [pc |-> "idle",         \* idle, discard (the loop test of DoSynchDiscard),
                            \* recv (in the loop of DoSynchRecv), got
                            \* (DoSynchRecv has returned), returned
     nbytes |-> 0, timeout |-> 0,
     numRecd |-> 0,         \* DoSynchDiscard: its count
     ntodo |-> 0, res |-> 0,
     rnum |-> 0,            \* DoSynchRecv: its numRecd
     ret |-> 0]             \* the value DoSynchDiscard returned

\* what Recv may return for a buffer of n bytes
RecvResults(n) ==
    {[kind |-> "data", n |-> k] : k \in 1..n}
    \cup {[kind |-> k, n |-> 0] : k \in {"close", "again", "error"}}

DoSynchDiscard_call(s, nbytes, timeout) ==
    [s EXCEPT !.nbytes = nbytes, !.timeout = timeout, !.numRecd = 0,
              !.ntodo = 0, !.res = 0, !.rnum = 0, !.ret = 0, !.pc = "discard"]

\* DoSynchDiscard: the test of its loop, and the call of DoSynchRecv
discard_loop(s) ==
    IF s.numRecd < s.nbytes
    THEN [s EXCEPT !.ntodo = Min(s.nbytes - s.numRecd, bufSize),
                   !.rnum = 0, !.pc = "recv"]
    ELSE [s EXCEPT !.ret = s.numRecd, !.pc = "returned"]

\* DoSynchRecv returns v
recv_return(s, v) == [s EXCEPT !.res = v, !.pc = "got"]

\* DoSynchRecv: one pass of its loop.  select returned nfds and left the time
\* left in timeout; Recv returned r
recv_pass(s, nfds, left, r) ==
    LET s1 == [s EXCEPT !.timeout = left]
    IN IF nfds = 0 /\ left = 0
       THEN recv_return(s1, IF s.rnum > 0 THEN s.rnum ELSE -ETIMEDOUT)
       ELSE CASE r.kind = "close" -> recv_return(s1, 0)
              [] r.kind = "again" -> s1
              [] r.kind = "error" -> recv_return(s1, s.rnum)
              [] r.kind = "data" ->
                   IF s.rnum + r.n < s.ntodo
                   THEN [s1 EXCEPT !.rnum = @ + r.n]
                   ELSE recv_return(s1, s.rnum + r.n)

\* DoSynchDiscard: what it does with the result of DoSynchRecv
discard_got(s) ==
    IF s.res = -ETIMEDOUT
    THEN [s EXCEPT !.ret = s.numRecd, !.pc = "returned"]
    ELSE IF s.numRecd < 0
    THEN [s EXCEPT !.ret = s.numRecd, !.pc = "returned"]
    ELSE [s EXCEPT !.numRecd = @ + s.res, !.pc = "discard"]

(* Actions *)

Init ==
    /\ reqs = <<>>
    /\ requestList = <<>>
    /\ gCounters = [op \in Registered |-> 0]
    /\ chunkVersionInc = InitialChunkVersionInc
    /\ chunkIDseed = 0
    /\ fileIDseed = ROOTFID
    /\ dentries = [n \in Names |-> 0]
    /\ chunks = {}
    /\ chunkToServer = <<>>
    /\ rpcs = {}
    /\ sent = {}
    /\ pending = <<>>
    /\ nwritten = 0
    /\ logfile = <<>>
    /\ committed = 0
    /\ released = {}
    /\ nclient = 0
    /\ dispatchLog = <<>>
    /\ everSuspended = {}
    /\ waitAhead = <<>>
    /\ cp = CheckpointIdle
    /\ parsed = NoParse
    /\ net = NetStart
    /\ sock = SockIdle

ClientSubmit ==
    /\ nclient < MaxClientReq
    /\ \E req \in ClientRequests : Install(client_submit(World, req))

\* what the layout manager may answer to the request at the head of the queue:
\* only the first invocation of an Allocate (also one made by a Truncate)
\* consults it
Answers ==
    IF \/ /\ reqs[Head(requestList)].op = META_ALLOCATE
          /\ ~reqs[Head(requestList)].layoutDone
       \/ reqs[Head(requestList)].op = META_TRUNCATE
    THEN {[place |-> p, lease |-> l] : p \in Placements, l \in LeaseOutcomes}
    ELSE {[place |-> {}, lease |-> "fail"]}

ProcessRequest ==
    /\ requestList # <<>>
    /\ \E env \in Answers : Install(process_request(World, env))

ChunkReply ==
    \E m \in rpcs, ok \in BOOLEAN : Install(chunk_reply(World, m, ok))

LoggerWrite ==
    /\ nwritten < Len(pending)
    /\ Install(logger_write(World))

LoggerFlush ==
    /\ Unreleased(World) # <<>>
    /\ Install(logger_flush(World))

Next ==
    \/ ClientSubmit
    \/ ProcessRequest
    \/ ChunkReply
    \/ LoggerWrite
    \/ LoggerFlush

Spec == Init /\ [][Next]_vars

\* The state after a restart from a checkpoint that holds one file with one
\* chunk: the tree and the seeds are restored, the chunkservers have said hello
\* (the chunk is hosted by every server), and no request is in progress.
InitRestored ==
    /\ reqs = <<>>
    /\ requestList = <<>>
    /\ gCounters = [op \in Registered |-> 0]
    /\ chunkVersionInc = InitialChunkVersionInc
    /\ chunkIDseed = 1
    /\ fileIDseed = ROOTFID + 1
    /\ dentries = [n \in Names |-> ROOTFID + 1]
    /\ chunks = {[fid |-> ROOTFID + 1, offset |-> 0, chunkId |-> 1,
                  chunkVersion |-> InitialChunkVersionInc]}
    /\ chunkToServer = <<Servers>>
    /\ rpcs = {}
    /\ sent = {}
    /\ pending = <<>>
    /\ nwritten = 0
    /\ logfile = <<>>
    /\ committed = 0
    /\ released = {}
    /\ nclient = 0
    /\ dispatchLog = <<>>
    /\ everSuspended = {}
    /\ waitAhead = <<>>
    /\ cp = CheckpointIdle
    /\ parsed = NoParse
    /\ net = NetStart
    /\ sock = SockIdle

\* After the restart the clients send at most MaxRestoredReq requests
ClientSubmitRestored ==
    /\ nclient < MaxRestoredReq
    /\ \E req \in ClientRequests : Install(client_submit(World, req))

NextRestored ==
    \/ ClientSubmitRestored
    \/ ProcessRequest
    \/ ChunkReply
    \/ LoggerWrite
    \/ LoggerFlush

SpecRestored == InitRestored /\ [][NextRestored]_vars

\* The state after a restart from a checkpoint that holds one file with one
\* chunk, when none, one or every chunkserver has said hello for the chunk
InitRead ==
    /\ reqs = <<>>
    /\ requestList = <<>>
    /\ gCounters = [op \in Registered |-> 0]
    /\ chunkVersionInc = InitialChunkVersionInc
    /\ chunkIDseed = 1
    /\ fileIDseed = ROOTFID + 1
    /\ dentries = [n \in Names |-> ROOTFID + 1]
    /\ chunks = {[fid |-> ROOTFID + 1, offset |-> 0, chunkId |-> 1,
                  chunkVersion |-> InitialChunkVersionInc]}
    /\ chunkToServer \in {<<>>} \cup {<<place>> : place \in Placements \ {{}}}
    /\ rpcs = {}
    /\ sent = {}
    /\ pending = <<>>
    /\ nwritten = 0
    /\ logfile = <<>>
    /\ committed = 0
    /\ released = {}
    /\ nclient = 0
    /\ dispatchLog = <<>>
    /\ everSuspended = {}
    /\ waitAhead = <<>>
    /\ cp = CheckpointIdle
    /\ parsed = NoParse
    /\ net = NetStart
    /\ sock = SockIdle

\* Clients that read directories and chunk locations, and clients that
\* create and remove the file and allocate chunks
ReadRequests ==
    {r \in ClientRequests : r.op # META_LOOKUP}
    \cup
    {[NewReq(META_READDIR) EXCEPT !.dir = d] : d \in ROOTFID..(ROOTFID + 2)}
    \cup
    {[NewReq(op) EXCEPT !.fid = f, !.offset = o] :
        op \in {META_GETALLOC, META_GETLAYOUT},
        f \in (ROOTFID + 1)..(ROOTFID + 2), o \in Offsets}

ClientSubmitRead ==
    /\ nclient < MaxReadReq
    /\ \E req \in ReadRequests :
           Install(client_submit(World, req))

SendResponse ==
    \E r \in released :
        /\ reqs[r].op \in {META_READDIR, META_GETALLOC}
        /\ reqs[r].resp = <<>>
        /\ Install(send_response(World, r))

NextRead ==
    \/ ClientSubmitRead
    \/ ProcessRequest
    \/ ChunkReply
    \/ LoggerWrite
    \/ LoggerFlush
    \/ SendResponse

SpecRead == InitRead /\ [][NextRead]_vars

\* Clients that create, truncate and remove the file
TruncateClientRequests ==
    {[NewReq(op) EXCEPT !.name = n] : op \in {META_CREATE, META_REMOVE}, n \in Names}
    \cup
    {[NewReq(META_TRUNCATE) EXCEPT !.fid = f, !.offset = o] :
        f \in (ROOTFID + 1)..MaxOf(ROOTFID + 1, fileIDseed), o \in Offsets}

ClientSubmitTruncate ==
    /\ nclient < MaxTruncateReq
    /\ \E req \in TruncateClientRequests : Install(client_submit(World, req))

NextTruncate ==
    \/ ClientSubmitTruncate
    \/ ProcessRequest
    \/ ChunkReply
    \/ LoggerWrite
    \/ LoggerFlush

SpecTruncate == Init /\ [][NextTruncate]_vars

\* The log thread, given one retired request of any kind
MaxLogFid == 2

AllOps ==
    {META_LOOKUP, META_LOOKUP_PATH, META_CREATE, META_MKDIR, META_REMOVE,
     META_RMDIR, META_READDIR, META_GETALLOC, META_GETLAYOUT, META_ALLOCATE,
     META_TRUNCATE, META_RENAME, META_CHANGE_CHUNKVERSIONINC, META_HELLO,
     META_BYE, META_CHUNK_ALLOCATE, META_CHUNK_DELETE, META_CHUNK_TRUNCATE,
     META_CHUNK_HEARTBEAT, META_CHUNK_STALENOTIFY, META_CHUNK_VERSCHANGE,
     META_CHUNK_REPLICATE, META_PING, META_STATS, META_LEASE_ACQUIRE,
     META_LEASE_RENEW, META_LEASE_CLEANUP, META_CHUNK_REPLICATION_CHECK}

\* a request of any kind whose handler succeeded
RetiredRequests ==
    {[NewReq(op) EXCEPT !.name = n, !.newname = n, !.fid = f, !.offset = o,
                        !.chunkId = 1, !.chunkVersion = InitialChunkVersionInc,
                        !.cvi = InitialChunkVersionInc + 1] :
        op \in AllOps, n \in Names, f \in (ROOTFID + 1)..(ROOTFID + MaxLogFid),
        o \in Offsets}

\* process_request has handed one such request to the log
InitLog ==
    /\ \E req \in RetiredRequests : reqs = <<req>>
    /\ pending = <<1>>
    /\ dispatchLog = <<1>>
    /\ nclient = 1
    /\ requestList = <<>>
    /\ gCounters = [op \in Registered |-> 0]
    /\ chunkVersionInc = InitialChunkVersionInc
    /\ chunkIDseed = 0
    /\ fileIDseed = ROOTFID
    /\ dentries = [n \in Names |-> 0]
    /\ chunks = {}
    /\ chunkToServer = <<>>
    /\ rpcs = {}
    /\ sent = {}
    /\ nwritten = 0
    /\ logfile = <<>>
    /\ committed = 0
    /\ released = {}
    /\ everSuspended = {}
    /\ waitAhead = <<>>
    /\ cp = CheckpointIdle
    /\ parsed = NoParse
    /\ net = NetStart
    /\ sock = SockIdle

NextLog ==
    \/ LoggerWrite
    \/ LoggerFlush

SpecLog == InitLog /\ [][NextLog]_vars

\* The checkpointer and its callers.  The rest of the metaserver is at rest.
main == <<reqs, requestList, gCounters, chunkVersionInc, chunkIDseed, fileIDseed,
          dentries, chunks, chunkToServer, rpcs, sent, pending, nwritten, logfile,
          committed, released, nclient, dispatchLog, everSuspended, waitAhead>>

\* initial_CP: when the latest checkpoint file is missing, a Checkpoint request
\* is submitted and the start-up waits in wait_for_cp before the timer runs
initial_CP(c, exists) ==
    IF exists THEN c ELSE [c EXCEPT !.cpreq = @ + 1, !.tpc = "wait"]

InitCP ==
    /\ reqs = <<>>
    /\ requestList = <<>>
    /\ gCounters = [op \in Registered |-> 0]
    /\ chunkVersionInc = InitialChunkVersionInc
    /\ chunkIDseed = 0
    /\ fileIDseed = ROOTFID
    /\ dentries = [n \in Names |-> 0]
    /\ chunks = {}
    /\ chunkToServer = <<>>
    /\ rpcs = {}
    /\ sent = {}
    /\ pending = <<>>
    /\ nwritten = 0
    /\ logfile = <<>>
    /\ committed = 0
    /\ released = {}
    /\ nclient = 0
    /\ dispatchLog = <<>>
    /\ everSuspended = {}
    /\ waitAhead = <<>>
    /\ parsed = NoParse
    /\ net = NetStart
    /\ sock = SockIdle
    /\ \E exists \in BOOLEAN : cp = initial_CP(CheckpointIdle, exists)

\* the dispatcher notes a mutation, inside or outside a lock_running section
NoteMutation ==
    /\ cp.dpc \in {"idle", "locked"}
    /\ cp.apc = "none"
    /\ cp.mutations < MaxMutations
    /\ cp' = note_mutation(cp)
    /\ UNCHANGED <<main, parsed, net, sock>>

LockRunning ==
    /\ cp.dpc = "idle"
    /\ cp.apc = "none"
    /\ cp' = lock_running(cp)
    /\ UNCHANGED <<main, parsed, net, sock>>

LockRunningReturn ==
    /\ cp.dpc = "lock_ret"
    /\ cp' = lock_running_return(cp)
    /\ UNCHANGED <<main, parsed, net, sock>>

UnlockRunning ==
    /\ cp.dpc = "locked"
    /\ cp.apc = "none"
    /\ cp' = unlock_running(cp)
    /\ UNCHANGED <<main, parsed, net, sock>>

UnlockRunningStart ==
    /\ cp.dpc = "unlock_start"
    /\ cp' = unlock_running_start(cp)
    /\ UNCHANGED <<main, parsed, net, sock>>

TimerCheck ==
    /\ cp.tpc = "sleep"
    /\ cp.expiries < MaxExpiry
    /\ cp' = cptimer_check(cp)
    /\ UNCHANGED <<main, parsed, net, sock>>

TimerPost ==
    /\ cp.tpc = "checked"
    /\ cp' = cptimer_post(cp)
    /\ UNCHANGED <<main, parsed, net, sock>>

LoggerCheckpoint ==
    /\ cp.cpreq > 0
    /\ cp' = logger_checkpoint(cp)
    /\ UNCHANGED <<main, parsed, net, sock>>

DoCPWait ==
    /\ cp.wpc = "wait"
    /\ cp.running
    /\ cp' = do_CP_wait(cp)
    /\ UNCHANGED <<main, parsed, net, sock>>

DoCPBody ==
    /\ cp.wpc = "body"
    /\ \E ok \in BOOLEAN : cp' = do_CP_body(cp, ok)
    /\ UNCHANGED <<main, parsed, net, sock>>

WriteLeavesFirst ==
    /\ cp.wpc = "leaves"
    /\ cp' = write_leaves_first(cp)
    /\ UNCHANGED <<main, parsed, net, sock>>

WriteLeavesLeaf ==
    /\ cp.wpc = "leaf"
    /\ \E ok \in BOOLEAN : cp' = write_leaves_leaf(cp, ok)
    /\ UNCHANGED <<main, parsed, net, sock>>

WriteLeavesAdvance ==
    /\ cp.wpc = "advance"
    /\ cp' = write_leaves_advance(cp)
    /\ UNCHANGED <<main, parsed, net, sock>>

WriteLeavesEnd ==
    /\ cp.wpc = "leaves_end"
    /\ cp' = write_leaves_end(cp)
    /\ UNCHANGED <<main, parsed, net, sock>>

WriteZombiesOne ==
    /\ cp.wpc = "zombies"
    /\ cp.zombie > 0
    /\ \E ok \in BOOLEAN : cp' = write_zombies_one(cp, ok)
    /\ UNCHANGED <<main, parsed, net, sock>>

WriteZombiesDone ==
    /\ cp.wpc = "zombies"
    /\ cp.zombie = 0
    /\ cp' = write_zombies_done(cp)
    /\ UNCHANGED <<main, parsed, net, sock>>

DoCPClose ==
    /\ cp.wpc = "close"
    /\ cp' = do_CP_close(cp)
    /\ UNCHANGED <<main, parsed, net, sock>>

DoCPLink ==
    /\ cp.wpc = "link"
    /\ cp' = do_CP_link(cp)
    /\ UNCHANGED <<main, parsed, net, sock>>

DoCPEnd ==
    /\ cp.wpc = "end"
    /\ cp' = do_CP_end(cp)
    /\ UNCHANGED <<main, parsed, net, sock>>

\* the dispatcher, before it changes a node of the tree
WaitIfActive ==
    /\ cp.dpc \in {"idle", "locked"}
    /\ cp.apc = "none"
    /\ \E n \in Nodes : cp' = wait_if_active(cp, n)
    /\ UNCHANGED <<main, parsed, net, sock>>

WaitIfActiveAgain ==
    /\ cp.apc = "woken"
    /\ cp' = wait_if_active_again(cp)
    /\ UNCHANGED <<main, parsed, net, sock>>

ModifyNode ==
    /\ cp.apc = "modify"
    /\ cp' = modify_node(cp)
    /\ UNCHANGED <<main, parsed, net, sock>>

ZombieEnqueue ==
    /\ cp.dpc \in {"idle", "locked"}
    /\ cp.apc = "none"
    /\ cp.zombied < MaxZombies
    /\ cp' = zombie_enqueue(cp)
    /\ UNCHANGED <<main, parsed, net, sock>>

NextCP ==
    \/ NoteMutation
    \/ LockRunning
    \/ LockRunningReturn
    \/ UnlockRunning
    \/ UnlockRunningStart
    \/ TimerCheck
    \/ TimerPost
    \/ LoggerCheckpoint
    \/ DoCPWait
    \/ DoCPBody
    \/ WriteLeavesFirst
    \/ WriteLeavesLeaf
    \/ WriteLeavesAdvance
    \/ WriteLeavesEnd
    \/ WriteZombiesOne
    \/ WriteZombiesDone
    \/ DoCPClose
    \/ DoCPLink
    \/ DoCPEnd
    \/ ZombieEnqueue

SpecCP == InitCP /\ [][NextCP]_vars

\* The checkpoint run and the dispatcher that changes the tree meanwhile
NextRun ==
    \/ NoteMutation
    \/ TimerCheck
    \/ TimerPost
    \/ LoggerCheckpoint
    \/ DoCPWait
    \/ DoCPBody
    \/ WriteLeavesFirst
    \/ WriteLeavesLeaf
    \/ WriteLeavesAdvance
    \/ WriteLeavesEnd
    \/ WriteZombiesOne
    \/ WriteZombiesDone
    \/ DoCPClose
    \/ DoCPLink
    \/ DoCPEnd
    \/ ZombieEnqueue
    \/ WaitIfActive
    \/ WaitIfActiveAgain
    \/ ModifyNode

SpecRun == InitCP /\ [][NextRun]_vars

\* the steps of the checkpoint thread (cp_main): once started it runs on its own
CheckpointThread ==
    \/ DoCPWait
    \/ DoCPBody
    \/ WriteLeavesFirst
    \/ WriteLeavesLeaf
    \/ WriteLeavesAdvance
    \/ WriteLeavesEnd
    \/ WriteZombiesOne
    \/ WriteZombiesDone
    \/ DoCPClose
    \/ DoCPLink
    \/ DoCPEnd

\* the threads are scheduled: the checkpoint thread keeps running, and a woken
\* dispatcher gets the writer lock back and tests activeNode again
SpecRunFair == SpecRun /\ WF_vars(CheckpointThread) /\ WF_vars(WaitIfActiveAgain)

\* MainLoop: the poll vector and select.  Any of the descriptors may be ready
MainLoopPoll ==
    /\ net.pc = "poll"
    /\ LET fds == {net.fd[net.mConnections[i]] : i \in DOMAIN net.mConnections}
       IN \E r \in SUBSET fds, w \in SUBSET fds, e \in SUBSET fds :
              net' = poll(net, r, w, e)
    /\ UNCHANGED <<main, cp, parsed, sock>>

MainLoopTimeout ==
    /\ net.pc = "timeout"
    /\ \E eff \in Effects(net) : net' = timeout_handlers(net, eff)
    /\ UNCHANGED <<main, cp, parsed, sock>>

MainLoopRead ==
    /\ net.pc = "read"
    /\ \E eff \in Effects(net) : net' = handle_read(net, eff)
    /\ UNCHANGED <<main, cp, parsed, sock>>

MainLoopWrite ==
    /\ net.pc = "write"
    /\ \E eff \in Effects(net) : net' = handle_write(net, eff)
    /\ UNCHANGED <<main, cp, parsed, sock>>

MainLoopError ==
    /\ net.pc = "error"
    /\ \E eff \in Effects(net) : net' = handle_error(net, eff)
    /\ UNCHANGED <<main, cp, parsed, sock>>

MainLoopRemove ==
    /\ net.pc = "remove"
    /\ net' = remove_closed(net)
    /\ UNCHANGED <<main, cp, parsed, sock>>

NextNet ==
    \/ MainLoopPoll
    \/ MainLoopTimeout
    \/ MainLoopRead
    \/ MainLoopWrite
    \/ MainLoopError
    \/ MainLoopRemove

SpecNet == Init /\ [][NextNet]_vars

\* a caller discards up to MaxBytes bytes
DiscardCall ==
    /\ sock.pc = "idle"
    /\ \E nbytes \in 0..MaxBytes, timeout \in 0..MaxTimeout :
           sock' = DoSynchDiscard_call(sock, nbytes, timeout)
    /\ UNCHANGED <<main, cp, parsed, net>>

DiscardLoop ==
    /\ sock.pc = "discard"
    /\ sock' = discard_loop(sock)
    /\ UNCHANGED <<main, cp, parsed, net>>

\* select returns 0 when the whole timeout has passed, and else 1 with any
\* time left; a Recv that finds nothing (EAGAIN) follows a select that waited
RecvPass ==
    /\ sock.pc = "recv"
    /\ \E nfds \in {0, 1}, left \in 0..sock.timeout,
          r \in RecvResults(sock.ntodo - sock.rnum) :
           /\ nfds = 0 => left = 0
           /\ r.kind = "again" => left < sock.timeout
           /\ sock' = recv_pass(sock, nfds, left, r)
    /\ UNCHANGED <<main, cp, parsed, net>>

DiscardGot ==
    /\ sock.pc = "got"
    /\ sock' = discard_got(sock)
    /\ UNCHANGED <<main, cp, parsed, net>>

DiscardDone ==
    /\ sock.pc = "returned"
    /\ sock' = SockIdle
    /\ UNCHANGED <<main, cp, parsed, net>>

\* the steps of the thread inside DoSynchDiscard
DiscardThread ==
    \/ DiscardLoop
    \/ RecvPass
    \/ DiscardGot

NextSock ==
    \/ DiscardCall
    \/ DiscardThread
    \/ DiscardDone

SpecSock == Init /\ [][NextSock]_vars

\* the calling thread is scheduled: it is never stopped inside DoSynchDiscard
SpecSockFair == SpecSock /\ WF_vars(DiscardThread)

\* a message arrives and ParseCommand is called on it
ParseCommandCall ==
    /\ ~parsed.called
    /\ \E m \in Messages :
          parsed' = [called |-> TRUE, msg |-> m,
                     ret |-> ParseCommand(m).ret, req |-> ParseCommand(m).req]
    /\ UNCHANGED <<main, cp, net, sock>>

\* the caller has taken what ParseCommand returned and reads the next message
ParseCommandReturn ==
    /\ parsed.called
    /\ parsed' = NoParse
    /\ UNCHANGED <<main, cp, net, sock>>

NextParse ==
    \/ ParseCommandCall
    \/ ParseCommandReturn

SpecParse == Init /\ [][NextParse]_vars

\* the ops that setup_handlers gives no handler
NoHandlerOps ==
    {META_CHUNK_ALLOCATE, META_CHUNK_DELETE, META_CHUNK_TRUNCATE,
     META_CHUNK_HEARTBEAT, META_CHUNK_STALENOTIFY, META_CHUNK_VERSCHANGE}

\* requests of any op, with or without handler
AnyRequests ==
    {[NewReq(op) EXCEPT !.name = n] :
        op \in NoHandlerOps \cup {META_LOOKUP, META_CREATE}, n \in Names}

SubmitAny ==
    /\ nclient < MaxAnyReq
    /\ \E req \in AnyRequests : Install(client_submit(World, req))

\* messages with none or all of the headers, of every command name
PlainMessages ==
    {[cmd |-> c, prop |-> p] :
        c \in Commands,
        p \in {[k \in HeaderKeys |-> <<>>],
               [k \in HeaderKeys |->
                   CASE k = "Filename" -> <<CHOOSE n \in Names : TRUE>>
                     [] k = "Lease-type" -> <<"READ_LEASE">>
                     [] k = "Parent File-handle" -> <<ROOTFID>>
                     [] OTHER -> <<1>>]}}

ParsePlain ==
    /\ \E m \in PlainMessages :
          parsed' = [called |-> TRUE, msg |-> m,
                     ret |-> ParseCommand(m).ret, req |-> ParseCommand(m).req]
    /\ UNCHANGED <<main, cp, net, sock>>

NextAny ==
    \/ SubmitAny
    \/ ProcessRequest
    \/ LoggerWrite
    \/ LoggerFlush
    \/ ParsePlain

SpecAny == Init /\ [][NextAny]_vars

----------------------------------------------------------------------------
(* Vocabulary of the properties *)

Ids == 1..Len(reqs)

\* this step is a dispatch (process_request took a request off the queue)
DispatchStep == Len(dispatchLog') = Len(dispatchLog) + 1

\* ids are given at submission, so the order of submission is the order of ids
FirstPos(s, x) == CHOOSE i \in DOMAIN s : s[i] = x /\ \A j \in 1..(i - 1) : s[j] # x

IsAllocate(r) == reqs[r].op = META_ALLOCATE

\* the records of the log file that belong to request r
RecordsOf(r) == {k \in 1..Len(logfile) : logfile[k].rid = r}

\* the chunkVersionInc requests created for r by ChangeIncarnationNumber
CcviOf(r) == {c \in Ids : reqs[c].op = META_CHANGE_CHUNKVERSIONINC /\ reqs[c].req = r}

\* the log thread has consumed r
Logged(r) == \E i \in 1..nwritten : pending[i] = r

----------------------------------------------------------------------------
(* C1 *)

C1_Dispatched == Last(dispatchLog')

\* C1 as stated: at every dispatch, a request whose handler returns unsuspended
\* has the counter of its op incremented by one and is appended to the log's
\* pending queue once; a suspended one changes neither.
C1_Original ==
    [][DispatchStep =>
        LET r == C1_Dispatched
            op == reqs'[r].op
        IN IF ~reqs'[r].suspended
           THEN /\ op \in DOMAIN gCounters
                /\ gCounters' = [gCounters EXCEPT ![op] = @ + 1]
                /\ pending' = Append(pending, r)
           ELSE gCounters' = gCounters /\ pending' = pending]_vars

\* C1 amended: the counter is incremented once when RegisterCounters gave the op
\* one (chunkVersionInc requests have none, and then no counter changes); the
\* request is appended to pending exactly once; a suspended request changes
\* neither the counters nor pending.
C1_CountedAndLoggedOnce ==
    [][DispatchStep =>
        LET r == C1_Dispatched
            op == reqs'[r].op
        IN IF ~reqs'[r].suspended
           THEN /\ op \in Registered => gCounters' = [gCounters EXCEPT ![op] = @ + 1]
                /\ op \notin Registered => gCounters' = gCounters
                /\ pending' = Append(pending, r)
           ELSE gCounters' = gCounters /\ pending' = pending]_vars

\* a chunkVersionInc request has been retired, and some request was suspended
C1_Witness ==
    /\ \E i \in DOMAIN pending : reqs[pending[i]].op = META_CHANGE_CHUNKVERSIONINC
    /\ \E i \in DOMAIN pending : reqs[pending[i]].op \in Registered
    /\ everSuspended # {}

----------------------------------------------------------------------------
(* C2 *)

\* C2: a released response belongs to a request that went through add_pending
\* and was consumed by the log thread, and every record written for it or for
\* a request handed to the log before it is flushed.
C2_DurabilityBarrier ==
    \A r \in released :
        \E i \in 1..nwritten :
            /\ pending[i] = r
            /\ \A k \in 1..Len(logfile) :
                  (\E j \in 1..i : logfile[k].rid = pending[j]) => k <= committed

\* a successful create has been answered while a later record is still unflushed
C2_Witness ==
    /\ \E r \in released : reqs[r].status = 0 /\ RecordsOf(r) # {}
    /\ committed < Len(logfile)

----------------------------------------------------------------------------
(* C3 *)

\* the handler of r has changed the tree: a successful create or remove, or an
\* allocate that was resumed and assigned its chunk
TreeMutatedBy(r) ==
    /\ r \in Range(dispatchLog)
    /\ reqs[r].status = 0
    /\ ~reqs[r].suspended
    /\ \/ reqs[r].op \in {META_CREATE, META_REMOVE}
       \/ reqs[r].op = META_ALLOCATE /\ reqs[r].layoutDone

\* C3 as stated: whenever the tree has been mutated for a request, a durable
\* record of that request is already in the log.
C3_Original ==
    \A r \in Ids : TreeMutatedBy(r) => \E k \in RecordsOf(r) : k <= committed

\* C3 amended: the handler mutates the tree first; in the same dispatch the
\* request is handed to the log, and its record is durable before its response
\* is released.  Queries write no record.
C3_LoggedAfterMutation ==
    /\ \A r \in Ids : TreeMutatedBy(r) =>
          /\ r \in Range(pending)
          /\ r \in released => \E k \in RecordsOf(r) : k <= committed
    /\ \A k \in 1..Len(logfile) : reqs[logfile[k].rid].op # META_LOOKUP

\* a mutation whose response is out, and one that is applied but not yet written
C3_Witness ==
    /\ \E r \in released : TreeMutatedBy(r)
    /\ \E r \in Ids : TreeMutatedBy(r) /\ RecordsOf(r) = {}

----------------------------------------------------------------------------
(* C4 *)

\* C4: requests are first dispatched in the order of submission, and two
\* requests that never suspend reach add_pending in the order of submission.
C4_Fifo ==
    /\ \A a, b \in Ids :
          (a < b /\ b \in Range(dispatchLog)) =>
             /\ a \in Range(dispatchLog)
             /\ FirstPos(dispatchLog, a) < FirstPos(dispatchLog, b)
    /\ \A a, b \in Ids :
          (a < b /\ b \in Range(pending) /\ {a, b} \cap everSuspended = {}) =>
             /\ a \in Range(pending)
             /\ Pos(pending, a) < Pos(pending, b)

\* two requests that never suspended were retired around one that did
C4_Witness ==
    \E a, b, c \in Ids :
        /\ a < c /\ c < b
        /\ {a, b} \subseteq Range(pending) /\ {a, b} \cap everSuspended = {}
        /\ c \in everSuspended

----------------------------------------------------------------------------
(* C5 *)

----------------------------------------------------------------------------
(* C6 *)

\* the ALLOCATE of r is with the primary and has not been answered
AwaitsPrimary(r) == \E m \in rpcs : m.kind = "ALLOCATE" /\ m.req = r

HasChunkAt(fid, offset) == \E c \in chunks : c.fid = fid /\ c.offset = offset

\* the dispatched request is an Allocate on its first invocation for a
\* (fid, offset) of an existing file that has no chunk
C6_FreshStart(r) ==
    /\ IsAllocate(r)
    /\ ~reqs[r].layoutDone
    /\ reqs[r].fid \in Files(World)
    /\ ~HasChunkAt(reqs[r].fid, reqs[r].offset)

\* C6 as stated: while the primary has not acknowledged, the request is
\* suspended, not logged, and the tree has no Chunkinfo for its (fid, offset);
\* a request that ended with -ENOSPC is not suspended.
C6_Original ==
    \A r \in Ids :
        /\ AwaitsPrimary(r) =>
              /\ reqs[r].suspended
              /\ r \notin Range(pending)
              /\ ~HasChunkAt(reqs[r].fid, reqs[r].offset)
        /\ (IsAllocate(r) /\ reqs[r].status = -ENOSPC) =>
              ~reqs[r].suspended /\ ~AwaitsPrimary(r)

C6_Waiting ==
    \A r \in Ids :
        /\ AwaitsPrimary(r) =>
              /\ reqs[r].suspended
              /\ r \notin Range(pending)
              /\ \A c \in chunks : c.chunkId # reqs[r].chunkId
        /\ (IsAllocate(r) /\ reqs[r].status = -ENOSPC) =>
              ~reqs[r].suspended /\ ~AwaitsPrimary(r)

\* C6 amended: a first invocation with a fresh id either queues the ALLOCATE
\* and ends suspended, unlogged, with the tree unchanged, or ends with -ENOSPC
\* unsuspended; until the primary acknowledges, the request stays suspended and
\* unlogged and the tree has no Chunkinfo carrying the request's chunk id
\* (another Allocate for the same (fid, offset) may link its own chunk).
C6_FirstInvocation ==
    [][/\ DispatchStep /\ C6_FreshStart(Last(dispatchLog')) =>
            LET r == Last(dispatchLog')
            IN \/ /\ rpcs' # rpcs
                  /\ reqs'[r].suspended
                  /\ reqs'[r].status = 0
                  /\ reqs'[r].chunkId = chunkIDseed + 1
                  /\ pending' = pending
                  /\ chunks' = chunks
               \/ /\ rpcs' = rpcs
                  /\ reqs'[r].status = -ENOSPC
                  /\ ~reqs'[r].suspended
       /\ C6_Waiting']_vars

\* one Allocate waits for its primary, another ended with -ENOSPC
C6_Witness ==
    /\ \E r \in Ids : AwaitsPrimary(r) /\ r \in everSuspended
    /\ \E r \in Ids : IsAllocate(r) /\ reqs[r].status = -ENOSPC /\ r \in Range(pending)

----------------------------------------------------------------------------
(* C7 *)

\* r is an Allocate that was resumed with status 0 and has been dispatched
C7_AckedOk(r) ==
    /\ IsAllocate(r)
    /\ reqs[r].layoutDone
    /\ ~reqs[r].suspended
    /\ reqs[r].status # -EALLOCFAILED

C7_Record(r) ==
    [opcode |-> "allocate", rid |-> r, file |-> reqs[r].fid,
     offset |-> reqs[r].offset, chunkId |-> reqs[r].chunkId,
     chunkVersion |-> reqs[r].chunkVersion,
     text |-> <<"allocate", "/file/", ToString(reqs[r].fid),
                "/offset/", ToString(reqs[r].offset),
                "/chunkId/", ToString(reqs[r].chunkId),
                "/chunkVersion/", ToString(reqs[r].chunkVersion), "\n">>]

\* C7 as stated: an Allocate resumed after a successful ack is retired and
\* yields exactly one allocate record with its chunkId and chunkVersion.
C7_Original ==
    \A r \in Ids : C7_AckedOk(r) =>
        /\ r \in Range(pending)
        /\ Logged(r) =>
              /\ Cardinality(RecordsOf(r)) = 1
              /\ \A k \in RecordsOf(r) : logfile[k] = C7_Record(r)

C7_Logged ==
    \A r \in Ids : (C7_AckedOk(r) /\ Logged(r)) =>
        IF reqs[r].status = 0
        THEN /\ Cardinality(RecordsOf(r)) = 1
             /\ \A k \in RecordsOf(r) : logfile[k] = C7_Record(r)
        ELSE RecordsOf(r) = {}

\* C7 amended: the resumed handler clears suspended and the request is retired
\* in the same dispatch (counted, appended to pending); when assignChunkId
\* returns 0 the tree holds the Chunkinfo and one allocate record with that
\* chunkId and chunkVersion is written, and when assignChunkId fails (the file
\* was removed, or the offset got another chunk meanwhile) the tree is unchanged,
\* the request carries that error and no record is written.
C7_ResumedOk ==
    [][/\ (DispatchStep /\ IsAllocate(Last(dispatchLog'))
             /\ reqs[Last(dispatchLog')].layoutDone
             /\ reqs[Last(dispatchLog')].status = 0) =>
            LET r == Last(dispatchLog')
                q == reqs'[r]
            IN /\ ~q.suspended
               /\ pending' = Append(pending, r)
               /\ gCounters' = [gCounters EXCEPT ![META_ALLOCATE] = @ + 1]
               /\ q.status = 0 =>
                     [fid |-> q.fid, offset |-> q.offset, chunkId |-> q.chunkId,
                      chunkVersion |-> q.chunkVersion] \in chunks'
               /\ q.status # 0 => chunks' = chunks
       /\ C7_Logged']_vars

\* one resumed Allocate was logged with its record, another failed in assign
C7_Witness ==
    /\ \E r \in Ids : C7_AckedOk(r) /\ Logged(r) /\ reqs[r].status = 0
    /\ \E r \in Ids : C7_AckedOk(r) /\ Logged(r) /\ reqs[r].status # 0

----------------------------------------------------------------------------
(* C8 *)

C8_FailedResume(r) == IsAllocate(r) /\ reqs[r].layoutDone /\ reqs[r].status # 0

\* C8 as stated: the failure path bumps chunkVersionInc by one, sends
\* CHUNK_VERS_CHANGE to every server of the request, and leaves -EALLOCFAILED.
C8_Original ==
    [][(DispatchStep /\ C8_FailedResume(Last(dispatchLog'))) =>
          LET r == Last(dispatchLog')
          IN /\ chunkVersionInc' = chunkVersionInc + 1
             /\ reqs'[r].status = -EALLOCFAILED
             /\ \A s \in reqs[r].servers :
                   \E m \in sent' \ sent :
                      /\ m.kind = "CHUNK_VERS_CHANGE"
                      /\ m.server = s
                      /\ m.chunkId = reqs[r].chunkId]_vars

\* C8 amended: the failure path bumps chunkVersionInc by one and leaves
\* -EALLOCFAILED for good; CHUNK_VERS_CHANGE with the tree's version goes to
\* every server of the request when the tree knows the chunk (version > 0),
\* and for a chunk never linked to the tree nothing is sent and the chunk is
\* dropped from the chunk-to-server mapping.
C8_FailurePath ==
    [][/\ (DispatchStep /\ C8_FailedResume(Last(dispatchLog'))) =>
            LET r == Last(dispatchLog')
                v == getChunkVersion(World, reqs[r].fid, reqs[r].chunkId)
            IN /\ chunkVersionInc' = chunkVersionInc + 1
               /\ reqs'[r].status = -EALLOCFAILED
               /\ reqs'[r].chunkVersion = v
               /\ v > 0 =>
                     /\ reqs[r].servers # {}
                     /\ LET reset == {RpcMsg("CHUNK_VERS_CHANGE", s, r,
                                             reqs[r].chunkId, v) :
                                         s \in reqs[r].servers}
                        IN reset \subseteq sent' /\ sent' \ sent \subseteq reset
               /\ v <= 0 =>
                     /\ sent' = sent
                     /\ reqs[r].chunkId \notin DOMAIN chunkToServer'
       /\ \A r \in Ids : reqs[r].status = -EALLOCFAILED =>
                            reqs'[r].status = -EALLOCFAILED]_vars

\* a failed version change was answered with a reset to the tree's version
C8_Witness ==
    \E m \in sent :
        /\ m.kind = "CHUNK_VERS_CHANGE"
        /\ reqs[m.req].status = -EALLOCFAILED
        /\ m.chunkVersion = reqs[m.req].chunkVersion
        /\ m.chunkVersion > 0

----------------------------------------------------------------------------
(* C9 *)

\* the chunkVersionInc record written for the failed Allocate r is durable
C9_IncDurable(r) ==
    \E k \in 1..committed :
        logfile[k].opcode = "chunkVersionInc" /\ logfile[k].rid \in CcviOf(r)

\* C9: an Allocate that failed stays suspended, unlogged and unanswered until
\* the chunkVersionInc record of the request created for it is durable, and
\* the n-th chunkVersionInc request carries the increment as it was right after
\* the n-th bump.
C9_WaitsForIncrement ==
    /\ \A r \in Ids :
          (IsAllocate(r) /\ reqs[r].status = -EALLOCFAILED /\ ~C9_IncDurable(r)) =>
             /\ reqs[r].suspended
             /\ r \notin released
             /\ r \notin Range(pending)
    /\ \A k \in 1..Len(logfile) :
          logfile[k].opcode = "chunkVersionInc" =>
             logfile[k].cvi = InitialChunkVersionInc +
                 Cardinality({c \in 1..logfile[k].rid :
                                 reqs[c].op = META_CHANGE_CHUNKVERSIONINC})

\* a failed Allocate was answered after its increment record became durable
C9_Witness ==
    \E r \in released :
        IsAllocate(r) /\ reqs[r].status = -EALLOCFAILED /\ C9_IncDurable(r)

----------------------------------------------------------------------------
(* C10 *)

\* C10 as stated: every Allocate that was retired with a nonzero status has
\* caused a bump of chunkVersionInc (a chunkVersionInc request exists for it).
C10_Original ==
    \A r \in Range(pending) :
        (IsAllocate(r) /\ reqs[r].status # 0) => CcviOf(r) # {}

\* C10 amended: chunkVersionInc is bumped, by one, exactly for the Allocate
\* requests that were resumed with a failed chunkserver reply; an Allocate
\* that ends with any other nonzero status (allocateChunkId error, write-lease
\* failure, -ENOSPC, assignChunkId error) leaves it unchanged.
C10_BumpOnFailedReply ==
    /\ chunkVersionInc = InitialChunkVersionInc +
          Cardinality({c \in Ids : reqs[c].op = META_CHANGE_CHUNKVERSIONINC})
    /\ \A c \in Ids :
          reqs[c].op = META_CHANGE_CHUNKVERSIONINC =>
             /\ IsAllocate(reqs[c].req)
             /\ reqs[reqs[c].req].status = -EALLOCFAILED
    /\ \A r \in Ids :
          IsAllocate(r) =>
             IF reqs[r].status = -EALLOCFAILED
             THEN Cardinality(CcviOf(r)) = 1
             ELSE CcviOf(r) = {}

\* one Allocate failed at the chunkserver, another was retired with an error of
\* its first dispatch
C10_Witness ==
    /\ \E r \in Ids : IsAllocate(r) /\ reqs[r].status = -EALLOCFAILED
    /\ \E r \in Range(pending) :
          IsAllocate(r) /\ reqs[r].status \in {-ENOENT, -ENOSPC, -EDATAUNAVAIL}

----------------------------------------------------------------------------
(* C11 *)

\* the values of the chunkVersionInc records, in log order
C11_IncRecords == SelectSeq(logfile, LAMBDA rec : rec.opcode = "chunkVersionInc")

C11_LogIncreasing ==
    \A i, j \in DOMAIN C11_IncRecords :
        i < j => C11_IncRecords[i].cvi < C11_IncRecords[j].cvi

\* C11: chunkVersionInc never decreases from one state to the next, and the
\* values of the chunkVersionInc records grow strictly in the order of the log.
C11_Monotonic ==
    [][chunkVersionInc' >= chunkVersionInc /\ C11_LogIncreasing']_vars

\* two chunkVersionInc records have been written
C11_Witness == Len(C11_IncRecords) >= 2

----------------------------------------------------------------------------
(* C12 *)

\* this step is the first dispatch of an Allocate for a (fid, offset) that
\* has a chunk, and the layout manager answered lease
C12_LeaseStep(lease) ==
    /\ DispatchStep
    /\ IsAllocate(Last(dispatchLog'))
    /\ ~reqs[Last(dispatchLog')].layoutDone
    /\ HasChunkAt(reqs[Last(dispatchLog')].fid, reqs[Last(dispatchLog')].offset)
    /\ reqs'[Last(dispatchLog')].lease = lease

\* C12: an Allocate that finds a chunk with a live write lease is retired in
\* its first dispatch, unsuspended, with status 0 and the chunk id and version
\* of the tree; the tree, the increment and the chunkserver RPCs are untouched.
C12_ValidLease ==
    [][C12_LeaseStep("valid") =>
          LET r == Last(dispatchLog')
              q == reqs'[r]
          IN /\ ~q.suspended
             /\ q.status = 0
             /\ [fid |-> q.fid, offset |-> q.offset, chunkId |-> q.chunkId,
                 chunkVersion |-> q.chunkVersion] \in chunks
             /\ chunks' = chunks
             /\ chunkVersionInc' = chunkVersionInc
             /\ sent' = sent
             /\ rpcs' = rpcs
             /\ pending' = Append(pending, r)]_vars

\* an Allocate was retired on a live write lease
C12_Witness ==
    \E r \in Range(pending) :
        IsAllocate(r) /\ reqs[r].lease = "valid" /\ reqs[r].status = 0

----------------------------------------------------------------------------
(* C13 *)

\* the Chunkinfo the tree holds for the (fid, offset) of request r
C13_TreeChunk(r) ==
    CHOOSE c \in chunks : c.fid = reqs[r].fid /\ c.offset = reqs[r].offset

\* while a version change of r is unanswered, r is suspended and neither
\* queued again nor retired
C13_Waiting ==
    \A m \in rpcs : m.kind = "CHUNK_VERS_CHANGE" =>
        /\ reqs[m.req].suspended
        /\ m.req \notin Range(requestList)
        /\ m.req \notin Range(pending)
        /\ m.req \notin released

\* the first dispatch: without a live lease the version is bumped, every
\* replica is sent the change and the request is suspended; a refused lease
\* ends the request at once with the status of GetChunkWriteLease
C13_FirstDispatch ==
    /\ C12_LeaseStep("new") =>
          LET r == Last(dispatchLog')
              q == reqs'[r]
              c == C13_TreeChunk(r)
          IN /\ q.chunkId = c.chunkId
             /\ q.chunkVersion = c.chunkVersion + chunkVersionInc
             /\ q.chunkVersion > c.chunkVersion
             /\ q.suspended
             /\ pending' = pending
             /\ chunks' = chunks
             /\ chunkToServer[c.chunkId] # {}
             /\ \A s \in chunkToServer[c.chunkId] :
                   RpcMsg("CHUNK_VERS_CHANGE", s, r, q.chunkId, q.chunkVersion)
                      \in rpcs' \ rpcs
    /\ C12_LeaseStep("fail") =>
          LET r == Last(dispatchLog')
          IN /\ reqs'[r].status = -EDATAUNAVAIL
             /\ ~reqs'[r].suspended
             /\ pending' = Append(pending, r)
             /\ rpcs' = rpcs

\* this step dispatches an Allocate that took a new lease and was resumed
\* after every replica acknowledged
C13_ResumeStep ==
    /\ DispatchStep
    /\ IsAllocate(Last(dispatchLog'))
    /\ reqs[Last(dispatchLog')].lease = "new"
    /\ reqs[Last(dispatchLog')].layoutDone
    /\ reqs[Last(dispatchLog')].status = 0

C13_NewChunkinfo(q) ==
    [fid |-> q.fid, offset |-> q.offset, chunkId |-> q.chunkId,
     chunkVersion |-> q.chunkVersion]

\* C13 as stated: after the bump and the acknowledgements the resumed dispatch
\* leaves the tree's Chunkinfo at the new version and retires the request.
C13_Original ==
    [][/\ C13_FirstDispatch
       /\ C13_Waiting'
       /\ C13_ResumeStep =>
             LET r == Last(dispatchLog')
             IN /\ C13_NewChunkinfo(reqs'[r]) \in chunks'
                /\ ~reqs'[r].suspended
                /\ pending' = Append(pending, r)]_vars

\* C13 amended: as stated, except that the resumed dispatch updates the tree
\* only when assignChunkId succeeds; when the file was removed while the
\* request was suspended, assignChunkId fails, the tree is left as it is and the
\* request is retired with that error.
C13_NewLease ==
    [][/\ C13_FirstDispatch
       /\ C13_Waiting'
       /\ C13_ResumeStep =>
             LET r == Last(dispatchLog')
                 q == reqs'[r]
             IN /\ ~q.suspended
                /\ pending' = Append(pending, r)
                /\ q.status = 0 => C13_NewChunkinfo(q) \in chunks'
                /\ q.status # 0 => chunks' = chunks /\ q.fid \notin Files(World)]_vars

\* an Allocate that took a new lease was retired with the tree at its version
C13_Witness ==
    \E r \in Range(pending) :
        /\ IsAllocate(r)
        /\ reqs[r].lease = "new"
        /\ reqs[r].status = 0
        /\ reqs[r].chunkVersion > InitialChunkVersionInc
        /\ C13_NewChunkinfo(reqs[r]) \in chunks

----------------------------------------------------------------------------
(* C14 *)

\* C14 as stated: a new announcement to the chunkservers carries a version
\* greater than every earlier announcement for the chunk, and a new Chunkinfo
\* of the tree carries a version greater than the one it replaces.
C14_Original ==
    [][/\ \A m \in sent' \ sent : \A e \in sent :
             e.chunkId = m.chunkId => m.chunkVersion > e.chunkVersion
       /\ \A c \in chunks' \ chunks : \A e \in chunks :
             e.chunkId = c.chunkId => c.chunkVersion > e.chunkVersion]_vars

\* this step is the dispatch of an Allocate, first (resumed = FALSE) or resumed
C14_AllocStep(resumed) ==
    /\ DispatchStep
    /\ IsAllocate(Last(dispatchLog'))
    /\ reqs[Last(dispatchLog')].layoutDone = resumed

\* C14 amended: a first dispatch announces (ALLOCATE, CHUNK_VERS_CHANGE) only a
\* version greater than the one the tree holds for the chunk at that moment; a
\* new Chunkinfo carries a version that was announced before; and the failure
\* path announces the version of the tree, so it takes the chunkservers back
\* below the version the failed request had announced.
C14_Versions ==
    [][/\ chunkVersionInc' >= 1
       /\ C14_AllocStep(FALSE) =>
             \A m \in sent' \ sent :
                m.chunkVersion >
                   getChunkVersion(World, reqs[m.req].fid, m.chunkId)
       /\ \A c \in chunks' \ chunks :
             \E m \in sent : m.chunkId = c.chunkId /\ m.chunkVersion = c.chunkVersion
       /\ (C14_AllocStep(TRUE) /\ reqs[Last(dispatchLog')].status # 0) =>
             LET r == Last(dispatchLog')
                 v == getChunkVersion(World, reqs[r].fid, reqs[r].chunkId)
             IN /\ \A m \in sent' \ sent : m.chunkVersion = v /\ m.req = r
                /\ v > 0 =>
                      \A s \in reqs[r].servers :
                         RpcMsg("CHUNK_VERS_CHANGE", s, r, reqs[r].chunkId, v)
                            \in sent']_vars

\* the chunkservers were reset below a version announced before
C14_Witness ==
    \E m, e \in sent :
        /\ m.kind = "CHUNK_VERS_CHANGE" /\ e.kind = "CHUNK_VERS_CHANGE"
        /\ m.req = e.req
        /\ reqs[m.req].status = -EALLOCFAILED
        /\ m.chunkVersion = reqs[m.req].chunkVersion
        /\ e.chunkVersion > m.chunkVersion

----------------------------------------------------------------------------
(* C15 *)

IsTruncate(r) == reqs[r].op = META_TRUNCATE

\* the Allocate requests that handle_truncate tied to the Truncate t
C15_AllocOf(t) == {a \in Ids : IsAllocate(a) /\ reqs[a].req = t}

\* request a is still on its way: a reply is awaited for it, it is queued, the
\* log has it and has not released it, or a chunkVersionInc request made for
\* it is on its way
RECURSIVE C15_InProgress(_)
C15_InProgress(a) ==
    \/ \E m \in rpcs : m.req = a
    \/ a \in Range(requestList)
    \/ a \in Range(pending) /\ a \notin released
    \/ \E c \in CcviOf(a) : C15_InProgress(c)

\* C15: an extending Truncate has exactly one Allocate tied to it, and while it
\* is suspended that Allocate is still on its way, so that its completion
\* retires the Truncate; once the Allocate was released the Truncate is handed
\* to the log.
C15_TruncateRetired ==
    \A t \in Ids : (IsTruncate(t) /\ t \in everSuspended) =>
        /\ Cardinality(C15_AllocOf(t)) = 1
        /\ \A a \in C15_AllocOf(t) :
              /\ reqs[t].suspended => C15_InProgress(a)
              /\ a \in released => ~reqs[t].suspended /\ t \in Range(pending)

\* a Truncate was retired after its Allocate was acknowledged
C15_Retired ==
    \E t \in released : IsTruncate(t) /\ t \in everSuspended /\ RecordsOf(t) # {}

----------------------------------------------------------------------------
(* C16 *)

\* the validation errors the modelled handlers produce
ValidationErrors == {-ENOENT, -EEXIST}

C16_Failed(r) == reqs[r].status \in ValidationErrors /\ ~reqs[r].suspended

\* C16 as stated: a request that ended with a validation error has no record in
\* the log file and was not handed to the log.
C16_Original ==
    \A r \in Ids : C16_Failed(r) => RecordsOf(r) = {} /\ r \notin Range(pending)

\* C16 amended: a request whose handler ends with a validation error is handed
\* to the log by add_pending in that dispatch like every unsuspended request;
\* the log thread writes no record for it, and the flush that follows its
\* consumption releases its response.
C16_NoRecord ==
    [][/\ \A r \in Ids : C16_Failed(r)' => RecordsOf(r)' = {}
       /\ DispatchStep =>
             LET r == Last(dispatchLog')
             IN (reqs'[r].status \in ValidationErrors /\ ~reqs'[r].suspended)
                   => pending' = Append(pending, r)
       /\ \A r \in Ids :
             (C16_Failed(r) /\ Logged(r) /\ released' # released) => r \in released'
      ]_vars

\* a create of an existing name was answered with EEXIST; the log has the
\* record of the first create only
C16_Witness ==
    \E r \in released :
        /\ reqs[r].status = -EEXIST
        /\ RecordsOf(r) = {}
        /\ logfile # <<>>

----------------------------------------------------------------------------
(* C17 *)

\* the kinds that write nothing: queries, chunkserver membership, leases,
\* the replication check and the meta-to-chunkserver ops
C17_Silent ==
    {META_LOOKUP, META_LOOKUP_PATH, META_READDIR, META_GETALLOC, META_GETLAYOUT,
     META_HELLO, META_BYE, META_PING, META_STATS, META_LEASE_ACQUIRE,
     META_LEASE_RENEW, META_LEASE_CLEANUP, META_CHUNK_REPLICATION_CHECK,
     META_CHUNK_ALLOCATE, META_CHUNK_DELETE, META_CHUNK_TRUNCATE,
     META_CHUNK_HEARTBEAT, META_CHUNK_STALENOTIFY, META_CHUNK_VERSCHANGE,
     META_CHUNK_REPLICATE}

\* the opcode of the kinds that write a record
C17_Opcode ==
    [op \in AllOps \ C17_Silent |->
        CASE op = META_CREATE -> "create"
          [] op = META_MKDIR -> "mkdir"
          [] op = META_REMOVE -> "remove"
          [] op = META_RMDIR -> "rmdir"
          [] op = META_ALLOCATE -> "allocate"
          [] op = META_TRUNCATE -> "truncate"
          [] op = META_RENAME -> "rename"
          [] op = META_CHANGE_CHUNKVERSIONINC -> "chunkVersionInc"]

C17_Newlines(text) == {i \in DOMAIN text : text[i] = "\n"}

\* C17: once the log thread has consumed a successful request, the log file
\* has no record of it when its kind is a query, a membership, lease or
\* replication-check op or a meta-to-chunkserver op, and has exactly one
\* record of it, which begins with the opcode of its kind and has its only
\* end of line at its end, when its kind is create, mkdir, remove, rmdir,
\* allocate, truncate, rename or chunkVersionInc.
C17_LoggingByKind ==
    \A r \in Ids : (Logged(r) /\ reqs[r].status = 0) =>
        IF reqs[r].op \in C17_Silent
        THEN RecordsOf(r) = {}
        ELSE /\ Cardinality(RecordsOf(r)) = 1
             /\ \A k \in RecordsOf(r) :
                   /\ Head(logfile[k].text) = C17_Opcode[reqs[r].op]
                   /\ C17_Newlines(logfile[k].text) = {Len(logfile[k].text)}

\* the log thread has consumed a rename, and it has consumed a lookup
C17_Witness ==
    \E r \in Ids : Logged(r) /\ reqs[r].op = META_RENAME /\ RecordsOf(r) # {}

C17_WitnessSilent ==
    \E r \in Ids : Logged(r) /\ reqs[r].op = META_LOOKUP /\ RecordsOf(r) = {}

----------------------------------------------------------------------------
(* C18 *)

\* this step is a call of start_CP: by the log thread for a Checkpoint request,
\* or by unlock_running for a deferred start
StartCPStep ==
    \/ cp'.rotations # cp.rotations
    \/ cp.dpc = "unlock_start" /\ cp'.dpc = "idle"

Members(c) == <<c.running, c.mutations, c.nostart, c.startblocked, c.cpcount>>

\* C18 as stated: a start_CP call changes the members of the Checkpoint object
\* only when running = false, mutations # 0 and nostart = false, and then it
\* sets running and clears mutations.
C18_Original ==
    [][(StartCPStep /\ Members(cp') # Members(cp)) =>
          /\ ~cp.running /\ cp.mutations # 0 /\ ~cp.nostart
          /\ cp'.running /\ cp'.mutations = 0]_vars

\* C18 amended: a start_CP call changes running and mutations only when
\* running = false, mutations # 0 and nostart = false, and then sets
\* running = true and mutations = 0 in that one step (with nostart = true it
\* sets startblocked instead); a call while running = true leaves running,
\* mutations and startblocked unchanged; running is set only while the
\* checkpoint thread waits, and the thread is in the body of do_CP only while
\* running = true.
C18_OneAtATime ==
    [][/\ StartCPStep =>
             /\ <<cp'.running, cp'.mutations>> # <<cp.running, cp.mutations>> =>
                   /\ ~cp.running /\ cp.mutations # 0 /\ ~cp.nostart
                   /\ cp'.running /\ cp'.mutations = 0
             /\ (~cp.running /\ cp.mutations # 0 /\ ~cp.nostart) =>
                   cp'.running /\ cp'.mutations = 0
             /\ cp.running =>
                   <<cp'.running, cp'.mutations, cp'.startblocked>>
                      = <<cp.running, cp.mutations, cp.startblocked>>
       /\ (cp'.running /\ ~cp.running) => StartCPStep /\ cp.wpc = "wait"
       /\ cp'.wpc # "wait" => cp'.running
      ]_vars

\* the log thread has called start_CP while the checkpoint thread was writing
C18_Witness == cp.last = "running" /\ cp.wpc = "body"

----------------------------------------------------------------------------
(* C19 *)

\* C19: the timer posts a Checkpoint request only when isCPNeeded
\* held, a start_CP call with mutations = 0 does not set running, and the log
\* is rotated and a checkpoint file is written only when there are mutations.
C19_Original ==
    [][/\ cp'.cpreq > cp.cpreq => cp.needed
       /\ (StartCPStep /\ cp.mutations = 0) => cp'.running = cp.running
       /\ cp'.rotations # cp.rotations => cp.mutations # 0
       /\ cp'.files # cp.files => cp.running]_vars

\* the part of C19 that the code keeps: the timer calls isCPNeeded at every
\* expiry and posts a Checkpoint request only when it returned true; a start_CP
\* call with mutations = 0 does not set running, so that a checkpoint run
\* begins only at a call that found mutations # 0 and a checkpoint file is
\* written only in such a run.
C19_NoIdleCheckpoint ==
    [][/\ cp'.expiries # cp.expiries =>
             cp'.needed = (~cp.running /\ cp.mutations # 0)
       /\ cp'.cpreq > cp.cpreq => cp.needed /\ cp.tpc = "checked"
       /\ (StartCPStep /\ cp.mutations = 0) => cp'.running = cp.running
       /\ (cp'.running /\ ~cp.running) => StartCPStep /\ cp.mutations # 0
       /\ cp'.files # cp.files => cp.running /\ cp.wpc = "body"
      ]_vars

\* the timer has expired, the log thread has retired a Checkpoint request with
\* mutations = 0 (rotating the log), and no checkpoint ran
C19_RotatedIdle ==
    /\ cp.expiries >= 1
    /\ cp.last = "nomutations"
    /\ cp.rotations >= 1
    /\ cp.files = 0 /\ cp.cpcount = 0 /\ ~cp.running

----------------------------------------------------------------------------
(* C20 *)

\* the dispatcher is between the locked section of lock_running and the locked
\* section of the matching unlock_running
InWindow(c) == c.dpc \in {"lock_ret", "locked"}

\* C20: inside the window nostart is set and no step sets running; a start_CP
\* call in the window that finds running = false and mutations # 0 sets
\* startblocked and starts nothing; unlock_running clears nostart and
\* startblocked and, when a start was blocked, calls start_CP, which sets
\* running = true and mutations = 0 if then no checkpoint is running and
\* mutations # 0.
C20_StartBlocking ==
    [][/\ InWindow(cp) => cp.nostart /\ ~(cp'.running /\ ~cp.running)
       /\ (StartCPStep /\ InWindow(cp) /\ ~cp.running /\ cp.mutations # 0) =>
             /\ cp'.startblocked
             /\ ~cp'.running
             /\ cp'.mutations = cp.mutations
       /\ (cp.dpc = "locked" /\ cp'.dpc # "locked") =>
             /\ ~cp'.nostart /\ ~cp'.startblocked
             /\ cp'.dpc = IF cp.startblocked THEN "unlock_start" ELSE "idle"
       /\ (cp.dpc = "unlock_start" /\ cp'.dpc = "idle") =>
             /\ (~cp.running /\ cp.mutations # 0) =>
                   cp'.running /\ cp'.mutations = 0
             /\ ~cp'.nostart /\ ~cp'.startblocked
      ]_vars

\* a start was blocked inside the window and unlock_running has started the
\* deferred checkpoint
C20_Witness ==
    /\ cp.lastby = "unlock" /\ cp.last = "start"
    /\ cp.running /\ cp.mutations = 0
    /\ cp.dpc = "idle"

----------------------------------------------------------------------------
(* C21 *)

\* this step is the dispatcher changing the node it called wait_if_active for
ModifyStep == cp.apc = "modify" /\ cp'.apc = "none"

\* C21: the dispatcher, which calls wait_if_active(n) before every change of
\* node n, never changes n while the checkpoint thread holds n as its active
\* node.
C21_NoChangeOfActiveNode ==
    [][ModifyStep => cp.activeNode # cp.dnode]_vars

\* the part of C21 that the code keeps: wait_if_active(n) returns only from a
\* locked test that found activeNode # n
C21_ReturnsWhenInactive ==
    [][(cp.apc \in {"none", "woken"} /\ cp'.apc = "modify") =>
          cp.activeNode # cp'.dnode]_vars

(* C22 *)

\* C22: a dispatcher blocked in wait_if_active(n), n a node, is eventually released: it leaves wait_if_active and goes on to its change of n.
C22_Released == (cp.apc = "sleeping" /\ cp.dnode \in Nodes) ~> (cp.apc = "modify")

\* the dispatcher has been woken from wait_if_active(n) in a run whose write of a leaf failed
C22_Witness == cp.apc = "woken" /\ cp.dnode \in Nodes /\ cp.activeNode # cp.dnode /\ cp.status # 0


(* C23 *)

RunEndStep == cp.running /\ ~cp'.running

\* C23: in every checkpoint run the zombie queue is drained after the leaves, so that it is empty when the run ends (running returns to false).
C23_DrainedAtRunEnd == [][RunEndStep => cp'.zombie = 0]_vars

\* the part of C23 that the code keeps: an entity leaves the zombie queue only in write_zombies, after the leaves, and is written as it leaves
C23_WrittenOnce ==
    [][cp'.zombie < cp.zombie =>
        /\ cp.wpc = "zombies"
        /\ cp'.zombie = cp.zombie - 1
        /\ cp'.zwritten = cp.zwritten + 1]_vars


(* C24 *)

\* C24: in each checkpoint run the file is closed first, then the latest link is switched to that file, and only afterwards running is set to false and cpcount is incremented; cpcount grows by exactly 1 per run, and running is false after every run.
C24_FinalisingOrder ==
    [][/\ (cp.open /\ ~cp'.open) => (cp'.running /\ cp.latest # cp.files /\ cp'.latest = cp.latest)
       /\ cp'.latest # cp.latest => (~cp.open /\ cp'.latest = cp.files /\ cp'.running /\ cp'.cpcount = cp.cpcount)
       /\ RunEndStep => (~cp.open /\ cp.latest = cp.files /\ cp'.cpcount = cp.cpcount + 1)
       /\ cp'.cpcount # cp.cpcount => RunEndStep
       /\ (cp.wpc # "wait" /\ cp'.wpc = "wait") => ~cp'.running]_vars

\* a second run that wrote its file has ended: closed, linked, counted
C24_Witness == cp.cpcount = 2 /\ ~cp.running /\ ~cp.open /\ cp.files = 2 /\ cp.latest = 2 /\ cp.wpc = "wait"


(* C25 *)

\* do_CP has returned a nonzero status to cp_main
FailedRun == cp.wpc = "wait" /\ cp.status # 0

\* C25: a durability error is fatal: once do_CP has returned nonzero the process is gone, so no thread takes a further step: no checkpoint run starts and no request is processed.
C25_FailureIsFatal == [][FailedRun => cp' = cp]_vars


(* C26 *)

\* the wait_for_cp of initial_CP returns: checkpointer_init goes on to start the timer
InitWaitEnds == cp.tpc = "wait" /\ cp.expiries = 0 /\ cp'.tpc = "sleep"

\* C26: when the checkpoint file is missing at startup, initialisation waits for the checkpoint it requested to complete before the timer is started, also when mutations = 0 at startup.
C26_WaitsForCheckpoint == [][InitWaitEnds => (cp'.cpcount >= 1 /\ ~cp'.running)]_vars

\* the part of C26 that the code keeps: no request when the file exists, exactly one when it is missing, and the timer is not started while the request is unretired
C26_OneRequest ==
    /\ (cp.expiries = 0 /\ cp.rotations = 0) => cp.cpreq = (IF cp.tpc = "wait" THEN 1 ELSE 0)
    /\ (cp.expiries = 0 /\ cp.tpc = "wait") => cp.rotations = 0

(* C27 *)

CreateParsed == parsed.called /\ parsed.msg.cmd = "CREATE"

\* C27: every MetaCreate request that ParseCommand makes from a CREATE message has numReplicas in 1..3, whatever the Num-replicas header; a message whose value cannot be brought into the range is rejected with -1.
C27_ReplicasInRange ==
    CreateParsed =>
        \/ parsed.ret = -1 /\ parsed.req = <<>>
        \/ parsed.ret = 0 /\ parsed.req[1].numReplicas \in 1..NUM_REPLICAS_PER_FILE

\* the part of C27 that the code keeps: the value is capped at 3, 0 is rejected, and a missing header gives 1
C27_Capped ==
    CreateParsed /\ parsed.ret = 0 =>
        /\ parsed.req[1].numReplicas <= NUM_REPLICAS_PER_FILE
        /\ parsed.req[1].numReplicas # 0
        /\ ~hasValue(parsed.msg.prop, "Num-replicas") => parsed.req[1].numReplicas = 1


(* C28 *)

\* the headers the protocol lists for a command
RequiredHeaders(cmd) ==
    CASE cmd = "LOOKUP" -> {"Cseq", "Parent File-handle", "Filename"}
      [] cmd = "CREATE" -> {"Cseq", "Parent File-handle", "Filename", "Num-replicas"}
      [] cmd = "LEASE_ACQUIRE" -> {"Chunk-handle"}
      [] cmd = "LEASE_RENEW" -> {"Chunk-handle", "Lease-id", "Lease-type"}
      [] OTHER -> {}

HeaderMissing(m) == \E k \in RequiredHeaders(m.cmd) : ~hasValue(m.prop, k)

NoDirOrName(prop) ==
    \/ getValue(prop, "Parent File-handle", -1) < 0
    \/ ~hasValue(prop, "Filename")

AwaitedAllocate(c) == \E m \in rpcs : m.kind = "ALLOCATE" /\ m.chunkId = c

ThroughResume(r) ==
    /\ reqs[r].op = META_ALLOCATE
    /\ reqs[r].layoutDone
    /\ \A i \in 1..Len(requestList) : requestList[i] # r

\* handle_allocate called once more on r
Reinvoked(r) == handle_allocate(World, r, [place |-> {}, lease |-> "fail"])

\* C30: a second resumption of handle_allocate is not executed: invoking handle_allocate again on a request that has been through its resume path changes neither the tree, nor chunkVersionInc, nor the request queue.
C30_SecondResumeChangesNothing ==
    \A r \in Ids : ThroughResume(r) =>
        /\ Reinvoked(r).chunks = chunks
        /\ Reinvoked(r).chunkVersionInc = chunkVersionInc
        /\ Reinvoked(r).requestList = requestList

\* the part of C30 that the code keeps: the program itself dispatches an Allocate at most twice, the first pass and one resumption
C30_ResumedOnce ==
    \A r \in Ids : reqs[r].op = META_ALLOCATE =>
        Cardinality({i \in 1..Len(dispatchLog) : dispatchLog[i] = r}) <= 2


(* C31 *)

\* C31: unknown input is rejected without side effects: ParseCommand returns -1 and makes no request for a command name without parse handler, and the dispatch of a request whose op has no handler sets status = -ENOSYS, leaves the tree unchanged, and retires the request: it is not suspended and is handed to the log.
C31_UnknownRejected ==
    [][/\ (parsed'.called /\ parsed'.msg.cmd \notin ParseHandlers) =>
             (parsed'.ret = -1 /\ parsed'.req = <<>>)
       /\ DispatchStep =>
             LET r == Last(dispatchLog')
             IN reqs[r].op \in NoHandlerOps =>
                   /\ reqs'[r].status = -ENOSYS
                   /\ ~reqs'[r].suspended
                   /\ dentries' = dentries
                   /\ chunks' = chunks
                   /\ fileIDseed' = fileIDseed
                   /\ chunkIDseed' = chunkIDseed
                   /\ chunkVersionInc' = chunkVersionInc
                   /\ chunkToServer' = chunkToServer
                   /\ rpcs' = rpcs
                   /\ pending' = Append(pending, r)
                   /\ requestList' = Tail(requestList)]_vars

\* a request without handler has been answered with -ENOSYS, and a message with an unknown command name has been refused
C31_Witness ==
    /\ \E r \in released : reqs[r].op \in NoHandlerOps /\ reqs[r].status = -ENOSYS
    /\ parsed.called /\ parsed.msg.cmd \notin ParseHandlers /\ parsed.ret = -1

----------------------------------------------------------------------------
(* C32 *)

\* the pieces of a READDIR body that are names
NamesWritten(res) == {i \in DOMAIN res : res[i] # "\n"}

\* C32: READDIR ends with -ENOENT when the directory fid has no Fattr, with
\* -ENOTDIR when the fid is a file, and else with the status and the dentries of
\* the tree's readdir; the response for the root directory never lists "/" and
\* its Num-Entries is the number of names written in the body.
C32_Readdir ==
    [][ /\ DispatchStep =>
            LET r == Last(dispatchLog')
                d == reqs[r].dir
                isFile == \E n \in Names : dentries[n] = d
            IN reqs[r].op = META_READDIR =>
                 /\ (d # ROOTFID /\ ~isFile) =>
                        reqs'[r].status = -ENOENT /\ reqs'[r].v = <<>>
                 /\ isFile => reqs'[r].status = -ENOTDIR /\ reqs'[r].v = <<>>
                 /\ d = ROOTFID =>
                        /\ reqs'[r].status = 0
                        /\ Range(reqs'[r].v) =
                               {"/"} \cup {n \in Names : dentries[n] # 0}
                        /\ Len(reqs'[r].v) = Cardinality(Range(reqs'[r].v))
        /\ \A r \in DOMAIN reqs' :
               (reqs'[r].op = META_READDIR /\ reqs'[r].resp # <<>>) =>
                  LET p == reqs'[r].resp[1]
                  IN /\ p.status = reqs'[r].status
                     /\ p.status >= 0 =>
                          /\ p.numEntries = Cardinality(NamesWritten(p.res))
                          /\ reqs'[r].dir = ROOTFID =>
                               {p.res[i] : i \in NamesWritten(p.res)} =
                                   Range(reqs'[r].v) \ {"/"}
      ]_vars

\* the root directory, which holds "/" and one file, was listed with one entry,
\* and a READDIR of a file was refused
C32_Witness ==
    /\ \E r \in released :
          /\ reqs[r].op = META_READDIR /\ reqs[r].dir = ROOTFID
          /\ Len(reqs[r].v) = 2
          /\ reqs[r].resp # <<>>
          /\ reqs[r].resp[1].numEntries = 1
    /\ \E r \in released :
          reqs[r].op = META_READDIR /\ reqs[r].status = -ENOTDIR

----------------------------------------------------------------------------
(* C33 *)

\* the chunks the tree holds for the file that no server is known to host
UnmappedChunks(fid, offset) ==
    {c \in chunks : c.fid = fid /\ c.offset = offset
                    /\ c.chunkId \notin DOMAIN chunkToServer}

----------------------------------------------------------------------------
(* C34 *)

\* C34: activeNode is NULL whenever no checkpoint is running; it is non-null
\* only while the checkpoint thread is inside write_leaves, between its first
\* save_active and its final save_active(NULL), whether the file could be
\* opened or not and whether a leaf write failed or not.
C34_ActiveOnlyInWriteLeaves ==
    /\ ~cp.running => cp.activeNode = 0
    /\ cp.activeNode # 0 =>
          /\ cp.running
          /\ cp.wpc \in {"leaf", "advance", "leaves_end"}
          /\ cp.open
    /\ cp.wpc \in {"wait", "body", "leaves", "zombies", "close", "link", "end"} =>
          cp.activeNode = 0

\* a run whose leaf write failed before the last leaf has ended
C34_Witness ==
    /\ ~cp.running
    /\ cp.wpc = "wait"
    /\ cp.status # 0
    /\ cp.li \in 2..NumLeaves
    /\ cp.activeNode = 0

----------------------------------------------------------------------------
(* C35 *)

\* lock_running returns: the read of running for its return value
LockReturnStep == cp.dpc = "lock_ret" /\ cp'.dpc = "locked"

\* C35: when lock_running has returned false, no checkpoint is running from
\* its return until unlock_running is called, whatever start_CP calls and
\* steps of the checkpoint thread come between; when it returns true, a
\* checkpoint was running at a moment after nostart was set.
C35_LockedMeansNotRunning ==
    [][ /\ (cp'.dpc = "locked" /\ ~cp'.lockret) => ~cp'.running
        /\ (LockReturnStep /\ cp'.lockret) => (cp.nostart /\ cp.running)
        /\ (LockReturnStep /\ ~cp'.lockret) => (cp.nostart /\ ~cp.running)
      ]_vars

\* lock_running returned false and a start_CP call made since then was held
\* back
C35_Witness ==
    /\ cp.dpc = "locked"
    /\ ~cp.lockret
    /\ cp.startblocked
    /\ cp.last = "nostart"
    /\ ~cp.running

----------------------------------------------------------------------------
(* C36 *)

\* The checkpointer with a dispatcher that takes lock_running sections and
\* waits for the active node before it changes the tree or retires an entity
NextHandshake ==
    \/ NoteMutation
    \/ LockRunning
    \/ LockRunningReturn
    \/ UnlockRunning
    \/ UnlockRunningStart
    \/ TimerCheck
    \/ TimerPost
    \/ LoggerCheckpoint
    \/ CheckpointThread
    \/ WaitIfActive
    \/ WaitIfActiveAgain
    \/ ModifyNode
    \/ ZombieEnqueue

SpecHandshake == InitCP /\ [][NextHandshake]_vars

\* the checkpoint thread is scheduled whenever it can run; nothing is asked of
\* the dispatcher, the timer and the log thread
SpecHandshakeFair == SpecHandshake /\ WF_vars(CheckpointThread)

----------------------------------------------------------------------------
(* C37 *)

\* C37: the latest link always names a complete checkpoint: it is moved to the
\* file of a run only when the header, every leaf and every zombie of the run
\* were written with status 0, so after a run whose write_leaves or
\* write_zombies returned an error it still names the previous checkpoint.
C37_LatestIsComplete ==
    [][cp'.latest # cp.latest => cp.status = 0]_vars

----------------------------------------------------------------------------
(* C38 *)

\* r has left the dispatcher for good: it was handed to the log
Retired(r) == r \in Range(pending)

\* b was dispatched for the first time after the first dispatch of a and
\* before the resumed dispatch of a
DispatchedWhileSuspended(a, b) ==
    \E i, j, k \in DOMAIN dispatchLog :
        /\ i < j /\ j < k
        /\ dispatchLog[i] = a /\ dispatchLog[k] = a
        /\ dispatchLog[j] = b
        /\ \A l \in 1..(j - 1) : dispatchLog[l] # b

\* two Allocates of the same chunk position
SamePosition(a, b) ==
    /\ a # b /\ IsAllocate(a) /\ IsAllocate(b)
    /\ reqs[a].fid = reqs[b].fid /\ reqs[a].offset = reqs[b].offset

----------------------------------------------------------------------------
(* C39 *)

\* C39: at the start of every poll iteration every connection of the list has
\* a valid descriptor, so the assertion fd > 0 never fails, and within an
\* iteration no handler is invoked on a connection whose descriptor has been
\* closed, whoever closed it.
C39_ValidDescriptors ==
    /\ net.pc # "aborted"
    /\ net.pc = "poll" =>
          \A i \in DOMAIN net.mConnections : net.fd[net.mConnections[i]] > 0
    /\ ~net.badcall

----------------------------------------------------------------------------
(* C40 *)

\* C40: DoSynchDiscard always terminates: whatever select and Recv return
\* (data, a timeout, a closed peer, an error), the call returns after finitely
\* many passes, with a count between 0 and nbytes.
C40_Terminates ==
    /\ (sock.pc # "idle") ~> (sock.pc = "returned")
    /\ [](sock.pc = "returned" => sock.ret \in 0..sock.nbytes)

====
